---- MODULE Spec2Model ----
(***************************************************************************)
(* Model of the context core of alure (src/src/context.cpp, buffer.h):     *)
(* the current-context binding protocol, the buffer registry and its load  *)
(* state machine, the background worker with its pending-load queue, and   *)
(* the source pool with priority eviction.                                 *)
(***************************************************************************)
EXTENDS Integers, Sequences, FiniteSets, TLC

(***************************************************************************)
(* Universe and bounds                                                     *)
(***************************************************************************)
Ctxs == {"c1", "c2"}
NoCtx == "none"
CtxOrNone == Ctxs \cup {NoCtx}
Threads == {"t1", "t2"}
WorkerOf == [c \in Ctxs |-> IF c = "c1" THEN "w1" ELSE "w2"]
Workers == {WorkerOf[c] : c \in Ctxs}
NoThread == "free"
Names == {"a", "b"}
NoName == "-"

MaxBindCalls == 3
MaxBuffers == 2
MaxSources == 2
NumVoices == 2
MaxPrio == 1
MaxFrames == 3
MaxPoint == 5
RingSize == 16

VARIABLES
  \* process-wide / per-thread binding (context.cpp:239-240)
  sCurrentCtx, sThreadCurrentCtx,
  \* hardware binding as seen by alcGetCurrentContext
  alcCurrent, alcThread,
  \* capabilities of the backend
  hasSetThreadContext, hasThreadLocalExt,
  \* per-context fields
  mRefs, mSetExts, mContextMutex, mWakeMutex, mContext, devContexts,
  mBuffers, mPendingBuffers, mThread, mQuitThread, mWakeInterval,
  mStreamingSources,
  \* background worker position and condition-variable state
  wpc, wWoken,
  \* buffer objects
  bufs,
  \* source pool
  mAllSources, mFreeSources, mUsedSources, srcId, srcPrio, mSourceIds,
  hwSources,
  \* per-thread call state
  pc, ctxArg, lock1, lock2, oldCtx, nameArg, iter, newBuf, ret,
  \* number of binding calls each thread has begun
  bindCalls,
  \* registered decoder factories (context.cpp:67), the order in which they
  \* were registered, the stream being resolved and the resolution in progress
  sDecoders, regOrder, file, gd,
  \* what the decoder of the buffer being loaded reported (frames read, loop
  \* points) and the loop points the buffer gets (context.cpp:519-533)
  loop_pts,
  \* per context: the sources updated by the worker's last sweep, those whose
  \* update reported completion, and the sources that have been in the
  \* streaming set since the last buffer load without an update
  sweep,
  \* per context: whether a message handler is set (context.cpp:447-452)
  mMessage

bindVars == <<sCurrentCtx, sThreadCurrentCtx, alcCurrent, alcThread, mRefs, mSetExts>>
envVars == <<hasSetThreadContext, hasThreadLocalExt>>
decodeVars == <<sDecoders, regOrder, file, gd, loop_pts, sweep, mMessage>>
lockVars == <<mContextMutex, mWakeMutex>>
ctxVars == <<mContext, devContexts, mBuffers, mPendingBuffers, mThread, mQuitThread,
             mWakeInterval, mStreamingSources>>
workVars == <<wpc, wWoken>>
poolVars == <<mAllSources, mFreeSources, mUsedSources, srcId, srcPrio,
              mSourceIds, hwSources>>
callVars == <<ctxArg, lock1, lock2, oldCtx, nameArg, iter, newBuf>>
vars == <<bindVars, envVars, decodeVars, lockVars, ctxVars, workVars, bufs, poolVars,
          pc, callVars, ret, bindCalls>>

(***************************************************************************)
(* Results of calls                                                        *)
(***************************************************************************)
\* the most recently completed call: its thread, operation, context,
\* argument, returned value and error, and the source the call forcibly
\* stopped (0 if none); seq flips at every completed call
Ret(t, op, c, a, v, e) ==
  [thr |-> t, op |-> op, ctx |-> c, name |-> NoName, arg |-> a, val |-> v,
   err |-> e, evicted |-> 0, stopped |-> <<>>, seq |-> 1 - ret.seq]
NoRet ==
  [thr |-> NoThread, op |-> "none", ctx |-> NoCtx, name |-> NoName, arg |-> 0,
   val |-> 0, err |-> "ok", evicted |-> 0, stopped |-> <<>>, seq |-> 0]

\* no stream is open and no decoder resolution is in progress
NoFile == [pos |-> "start", accepted |-> {}]
NoResolution ==
  [pc |-> "idle", rest |-> <<>>, tried |-> <<>>, decoder |-> NoName, err |-> "ok"]

\* the locks, per-context objects, pools and call frames after construction
InitObjects ==
  /\ mContextMutex = [c \in Ctxs |-> NoThread]
  /\ mWakeMutex = [c \in Ctxs |-> NoThread]
  /\ mContext = [c \in Ctxs |-> TRUE]
  /\ devContexts = Ctxs
  /\ mBuffers = [c \in Ctxs |-> <<>>]
  /\ mPendingBuffers = [c \in Ctxs |-> <<>>]
  /\ mThread = [c \in Ctxs |-> "none"]
  /\ mQuitThread = [c \in Ctxs |-> FALSE]
  /\ mWakeInterval = [c \in Ctxs |-> 0]
  /\ mStreamingSources = [c \in Ctxs |-> {}]
  /\ wpc = [c \in Ctxs |-> "w_none"]
  /\ wWoken = [c \in Ctxs |-> FALSE]
  /\ bufs = <<>>
  /\ mAllSources = [c \in Ctxs |-> 0]
  /\ mFreeSources = [c \in Ctxs |-> <<>>]
  /\ mUsedSources = [c \in Ctxs |-> <<>>]
  /\ srcId = [c \in Ctxs |-> [s \in 1..MaxSources |-> 0]]
  /\ srcPrio = [c \in Ctxs |-> [s \in 1..MaxSources |-> 0]]
  /\ mSourceIds = [c \in Ctxs |-> <<>>]
  /\ hwSources = [c \in Ctxs |-> 0]
  /\ pc = [t \in Threads |-> "idle"]
  /\ ctxArg = [t \in Threads |-> NoCtx]
  /\ lock1 = [t \in Threads |-> NoCtx]
  /\ lock2 = [t \in Threads |-> NoCtx]
  /\ oldCtx = [t \in Threads |-> NoCtx]
  /\ nameArg = [t \in Threads |-> NoName]
  /\ iter = [t \in Threads |-> 0]
  /\ newBuf = [t \in Threads |-> 0]
  /\ sDecoders = {}
  /\ regOrder = <<>>
  /\ file = NoFile
  /\ gd = NoResolution
  /\ loop_pts = [frames |-> 0, first |-> 0, second |-> 0, start |-> 0, end |-> 0,
                 err |-> "none"]
  /\ sweep = [c \in Ctxs |-> [upd |-> {}, done |-> {}, stale |-> {}]]
  /\ mMessage = [c \in Ctxs |-> FALSE]

\* the state after construction: nothing is current (context.cpp:239-240,
\* 366-381)
Init ==
  /\ sCurrentCtx = NoCtx
  /\ sThreadCurrentCtx = [t \in Threads |-> NoCtx]
  /\ alcCurrent = NoCtx
  /\ alcThread = [t \in Threads \cup Workers |-> NoCtx]
  /\ hasSetThreadContext \in BOOLEAN
  /\ hasThreadLocalExt \in BOOLEAN
  /\ (hasThreadLocalExt => hasSetThreadContext)
  /\ mRefs = [c \in Ctxs |-> 0]
  /\ mSetExts = [c \in Ctxs |-> 0]
  /\ bindCalls = [t \in Threads |-> 0]
  /\ ret = NoRet
  /\ InitObjects

(***************************************************************************)
(* Helpers                                                                 *)
(***************************************************************************)
\* ALContext::GetCurrent(): the thread-local override, else the global one
GetCurrent(t) ==
  IF sThreadCurrentCtx[t] # NoCtx THEN sThreadCurrentCtx[t] ELSE sCurrentCtx

\* CheckContext(ctx): passes iff ctx is the calling thread's current context
CheckContext(t, c) == c = GetCurrent(t)

\* alcGetCurrentContext() as seen by thread x (foreground or worker)
alcGetCurrentContext(x) ==
  IF alcThread[x] # NoCtx THEN alcThread[x] ELSE alcCurrent

\* RefCount::addRef / decRef applied to a reference-count map
addRef(refs, c) == IF c = NoCtx THEN refs ELSE [refs EXCEPT ![c] = @ + 1]
decRef(refs, c) == IF c = NoCtx THEN refs ELSE [refs EXCEPT ![c] = @ - 1]

\* std::unique_lock destructors of lock1 / lock2 held by thread t
ReleaseLocks(mtx, t) == [c \in Ctxs |-> IF mtx[c] = t THEN NoThread ELSE mtx[c]]

\* condition_variable::notify_all on context c's mWakeThread
NotifyNobody(woken, c) == woken
NotifyAll(woken, c) ==
  IF c # NoCtx /\ wpc[c] \in {"w_idle_wait", "w_idle_wait_timed", "w_ctx_wait"}
  THEN [woken EXCEPT ![c] = TRUE] ELSE woken

\* a call names no context or one whose hardware context still exists
LiveOrNone(c) == IF c = NoCtx THEN TRUE ELSE mContext[c]

\* each thread issues a bounded number of binding calls
\* if(context) std::call_once(context->mSetExts, setupExts, context): each
\* flag counts the runs of setupExts made under it, and a run is made only
\* under a flag that has none yet
call_always(flags, c) ==
  IF c # NoCtx THEN [flags EXCEPT ![c] = @ + 1] ELSE flags
call_once(flags, c) ==
  IF c # NoCtx /\ flags[c] = 0 THEN [flags EXCEPT ![c] = 1] ELSE flags

\* the number of binding calls begun by the threads of S
RECURSIVE BindCallsOf(_)
BindCallsOf(S) ==
  IF S = {} THEN 0
  ELSE LET u == CHOOSE x \in S : TRUE IN bindCalls[u] + BindCallsOf(S \ {u})

BindBudget(t) ==
  /\ BindCallsOf(Threads) < MaxBindCalls
  /\ bindCalls' = [bindCalls EXCEPT ![t] = @ + 1]

ResetCall(t) ==
  /\ ctxArg' = [ctxArg EXCEPT ![t] = NoCtx]
  /\ lock1' = [lock1 EXCEPT ![t] = NoCtx]
  /\ lock2' = [lock2 EXCEPT ![t] = NoCtx]
  /\ oldCtx' = [oldCtx EXCEPT ![t] = NoCtx]
  /\ nameArg' = [nameArg EXCEPT ![t] = NoName]
  /\ iter' = [iter EXCEPT ![t] = 0]
  /\ newBuf' = [newBuf EXCEPT ![t] = 0]

(***************************************************************************)
(* ALContext::MakeCurrent (context.cpp:242-269)                            *)
(***************************************************************************)
\* lines 244-246: read sCurrentCtx; it names the first mutex to take
MC_Begin(t, c) ==
  /\ pc[t] = "idle"
  /\ BindBudget(t)
  /\ LiveOrNone(c)
  /\ ctxArg' = [ctxArg EXCEPT ![t] = c]
  /\ lock1' = [lock1 EXCEPT ![t] = sCurrentCtx]
  /\ pc' = [pc EXCEPT ![t] = IF sCurrentCtx # NoCtx THEN "mc_lock1" ELSE "mc_read2"]
  /\ UNCHANGED <<bindVars, envVars, decodeVars, lockVars, ctxVars, workVars, bufs, poolVars,
                 lock2, oldCtx, nameArg, iter, newBuf, ret>>

\* line 246: lock1 = unique_lock(sCurrentCtx->mContextMutex)
MC_Lock1(t) ==
  /\ pc[t] = "mc_lock1"
  /\ mContextMutex[lock1[t]] = NoThread
  /\ mContextMutex' = [mContextMutex EXCEPT ![lock1[t]] = t]
  /\ pc' = [pc EXCEPT ![t] = "mc_read2"]
  /\ UNCHANGED <<bindVars, envVars, decodeVars, bindCalls, mWakeMutex, ctxVars, workVars, bufs, poolVars,
                 callVars, ret>>

\* line 247: second read of sCurrentCtx decides whether lock2 is taken
MC_Read2(t) ==
  /\ pc[t] = "mc_read2"
  /\ LET need == ctxArg[t] # NoCtx /\ ctxArg[t] # sCurrentCtx IN
       /\ lock2' = [lock2 EXCEPT ![t] = IF need THEN ctxArg[t] ELSE NoCtx]
       /\ pc' = [pc EXCEPT ![t] = IF need THEN "mc_lock2" ELSE "mc_alc"]
  /\ UNCHANGED <<bindVars, envVars, decodeVars, bindCalls, lockVars, ctxVars, workVars, bufs, poolVars,
                 ctxArg, lock1, oldCtx, nameArg, iter, newBuf, ret>>

\* line 248: lock2 = unique_lock(context->mContextMutex)
MC_Lock2(t) ==
  /\ pc[t] = "mc_lock2"
  /\ mContextMutex[lock2[t]] = NoThread
  /\ mContextMutex' = [mContextMutex EXCEPT ![lock2[t]] = t]
  /\ pc' = [pc EXCEPT ![t] = "mc_alc"]
  /\ UNCHANGED <<bindVars, envVars, decodeVars, bindCalls, mWakeMutex, ctxVars, workVars, bufs, poolVars,
                 callVars, ret>>

\* lines 250-256: alcMakeContextCurrent succeeds, addRef, call_once(setupExts)
MC_Alc(t) ==
  /\ pc[t] = "mc_alc"
  /\ alcCurrent' = ctxArg[t]
  /\ alcThread' = [alcThread EXCEPT ![t] = NoCtx]
  /\ mRefs' = addRef(mRefs, ctxArg[t])
  /\ mSetExts' = call_once(mSetExts, ctxArg[t])
  /\ pc' = [pc EXCEPT ![t] = "mc_swap"]
  /\ UNCHANGED <<sCurrentCtx, sThreadCurrentCtx, envVars, decodeVars, bindCalls, lockVars, ctxVars,
                 workVars, bufs, poolVars, callVars, ret>>

\* lines 250-251: alcMakeContextCurrent returns ALC_FALSE, the call throws
MC_AlcFail(t) ==
  /\ pc[t] = "mc_alc"
  /\ mContextMutex' = ReleaseLocks(mContextMutex, t)
  /\ pc' = [pc EXCEPT ![t] = "idle"]
  /\ ret' = Ret(t, "MakeCurrent", ctxArg[t], 0, 0, "runtime_error")
  /\ ResetCall(t)
  /\ UNCHANGED <<bindVars, envVars, decodeVars, bindCalls, mWakeMutex, ctxVars, workVars, bufs, poolVars>>

\* line 257, first half of std::swap on the plain pointer: tmp = sCurrentCtx
MC_SwapRead(t) ==
  /\ pc[t] = "mc_swap"
  /\ oldCtx' = [oldCtx EXCEPT ![t] = sCurrentCtx]
  /\ pc' = [pc EXCEPT ![t] = "mc_swap_write"]
  /\ UNCHANGED <<bindVars, envVars, decodeVars, bindCalls, lockVars, ctxVars, workVars, bufs, poolVars,
                 ctxArg, lock1, lock2, nameArg, iter, newBuf, ret>>

\* lines 257-262: sCurrentCtx = context; context = tmp; decRef of the old
\* context; the calling thread's override is dropped
MC_SwapWrite(t) ==
  /\ pc[t] = "mc_swap_write"
  /\ sCurrentCtx' = ctxArg[t]
  /\ mRefs' = decRef(decRef(mRefs, oldCtx[t]), sThreadCurrentCtx[t])
  /\ sThreadCurrentCtx' = [sThreadCurrentCtx EXCEPT ![t] = NoCtx]
  /\ pc' = [pc EXCEPT ![t] = "mc_finish"]
  /\ UNCHANGED <<alcCurrent, alcThread, mSetExts, envVars, decodeVars, bindCalls, lockVars, ctxVars,
                 workVars, bufs, poolVars, callVars, ret>>

\* lines 264-269: if the (re-read) current context differs from the old one,
\* lock2.unlock() and notify_all on the current context; then both
\* unique_locks go out of scope.  unlock() of a lock that is not owned throws.
MC_Finish(t) ==
  /\ pc[t] = "mc_finish"
  /\ LET cur == sCurrentCtx
         wake == cur # NoCtx /\ cur # oldCtx[t]
         bad == wake /\ lock2[t] = NoCtx
     IN /\ wWoken' = IF wake /\ ~bad THEN NotifyAll(wWoken, cur) ELSE wWoken
        /\ ret' = Ret(t, "MakeCurrent", ctxArg[t], 0, 0,
                                         IF bad THEN "system_error" ELSE "ok")
  /\ mContextMutex' = ReleaseLocks(mContextMutex, t)
  /\ pc' = [pc EXCEPT ![t] = "idle"]
  /\ ResetCall(t)
  /\ UNCHANGED <<bindVars, envVars, decodeVars, bindCalls, mWakeMutex, ctxVars, wpc, bufs, poolVars>>

MakeCurrent(t) ==
  \/ \E c \in CtxOrNone : MC_Begin(t, c)
  \/ MC_Lock1(t)
  \/ MC_Read2(t)
  \/ MC_Lock2(t)
  \/ MC_Alc(t)
  \/ MC_AlcFail(t)
  \/ MC_SwapRead(t)
  \/ MC_SwapWrite(t)
  \/ MC_Finish(t)

\* line 284: sThreadCurrentCtx is thread_local, the store reaches the
\* calling thread's slot only
SetEverySlot(slots, t, c) == [u \in DOMAIN slots |-> c]
SetThreadSlot(slots, t, c) == [slots EXCEPT ![t] = c]

(***************************************************************************)
(* ALContext::MakeThreadCurrent (context.cpp:271-285)                      *)
(***************************************************************************)
MakeThreadCurrent(t, c) ==
  /\ pc[t] = "idle"
  /\ BindBudget(t)
  /\ LiveOrNone(c)
  /\ \E hwok \in BOOLEAN :
       IF ~hasSetThreadContext THEN
         /\ hwok
         /\ ret' = Ret(t, "MakeThreadCurrent", c, 0, 0, "runtime_error")
         /\ UNCHANGED bindVars
       ELSE IF ~hwok THEN
         /\ ret' = Ret(t, "MakeThreadCurrent", c, 0, 0, "runtime_error")
         /\ UNCHANGED bindVars
       ELSE
         /\ alcThread' = [alcThread EXCEPT ![t] = c]
         /\ mRefs' = decRef(addRef(mRefs, c), sThreadCurrentCtx[t])
         /\ mSetExts' = call_once(mSetExts, c)
         /\ sThreadCurrentCtx' = SetThreadSlot(sThreadCurrentCtx, t, c)
         /\ ret' = Ret(t, "MakeThreadCurrent", c, 0, 0, "ok")
         /\ UNCHANGED <<sCurrentCtx, alcCurrent>>
  /\ UNCHANGED <<envVars, decodeVars, lockVars, ctxVars, workVars, bufs, poolVars, pc, callVars>>

NextBind ==
  \/ \E t \in Threads : MakeCurrent(t)
  \/ \E t \in Threads, c \in CtxOrNone : MakeThreadCurrent(t, c)

SpecBind == Init /\ [][NextBind]_vars

(***************************************************************************)
(* Source pool (context.cpp:645-705)                                       *)
(***************************************************************************)
\* std::lower_bound on a sorted sequence: first position whose element is
\* not less than x, Len(q)+1 if there is none
RECURSIVE LowerBoundFrom(_, _, _)
LowerBoundFrom(q, x, i) ==
  IF i > Len(q) THEN i
  ELSE IF q[i] >= x THEN i
  ELSE LowerBoundFrom(q, x, i + 1)
LowerBound(q, x) == LowerBoundFrom(q, x, 1)

\* vector::insert(iter, x) and vector::erase(iter)
InsertAt(q, i, x) == SubSeq(q, 1, i - 1) \o <<x>> \o SubSeq(q, i, Len(q))
EraseAt(q, i) == SubSeq(q, 1, i - 1) \o SubSeq(q, i + 1, Len(q))
Range(q) == {q[i] : i \in 1..Len(q)}

\* lines 657-662: scan of mUsedSources for the lowest-priority source that
\* holds a voice; 0 when no used source holds one
RECURSIVE LowestFromLast(_, _, _, _, _)
RECURSIVE LowestFrom(_, _, _, _, _)
LowestFromLast(used, ids, prio, i, lowest) ==
  IF i > Len(used) THEN lowest
  ELSE LET src == used[i] IN
       IF ids[src] # 0 /\ (lowest = 0 \/ prio[src] <= prio[lowest])
       THEN LowestFromLast(used, ids, prio, i + 1, src)
       ELSE LowestFromLast(used, ids, prio, i + 1, lowest)
LowestFrom(used, ids, prio, i, lowest) ==
  IF i > Len(used) THEN lowest
  ELSE LET src == used[i] IN
       IF ids[src] # 0 /\ (lowest = 0 \/ prio[src] < prio[lowest])
       THEN LowestFrom(used, ids, prio, i + 1, src)
       ELSE LowestFrom(used, ids, prio, i + 1, lowest)
Lowest(c) == LowestFrom(mUsedSources[c], srcId[c], srcPrio[c], 1, 0)

\* ALSource::makeStopped(): the voice goes back on the free-id stack
MakeStopped(st, s) ==
  IF st.ids[s] = 0 THEN st
  ELSE [st EXCEPT !.stack = Append(@, st.ids[s]), !.ids[s] = 0,
                  !.stream = @ \ {s}]

\* the part of context c's state that getSourceId reads and writes
PoolState(c) ==
  [stack |-> mSourceIds[c], ids |-> srcId[c], hw |-> hwSources[c],
   stream |-> mStreamingSources[c], val |-> 0, err |-> "ok", victim |-> 0,
   stopped |-> <<>>]

\* lines 673-674: id = mSourceIds.top(); mSourceIds.pop()
TakeTopNoPop(st) == [st EXCEPT !.val = st.stack[Len(st.stack)]]
TakeTop(st) ==
  [st EXCEPT !.val = st.stack[Len(st.stack)], !.stack = SubSeq(@, 1, Len(@) - 1)]

\* line 663: the lowest-priority holder is evicted only for a strictly
\* higher request priority
MayEvictLE(prio, maxprio) == prio <= maxprio
MayEvict(prio, maxprio) == prio < maxprio

\* ALContext::getSourceId(maxprio) after CheckContext (lines 649-675)
\* lines 666-667: the messages the handler of c receives, if one is set
sourceStopped(c, src, forced) ==
  IF mMessage[c] THEN <<[src |-> src, forced |-> forced]>> ELSE <<>>

GetSourceIdBody(c, maxprio) ==
  LET st0 == PoolState(c) IN
  IF st0.stack = <<>> /\ st0.hw < NumVoices
  THEN \* alGenSources succeeded
       [st0 EXCEPT !.hw = @ + 1, !.val = st0.hw + 1]
  ELSE
    LET lowest == Lowest(c)
        evict == st0.stack = <<>> /\ lowest # 0 /\ MayEvict(srcPrio[c][lowest], maxprio)
        st1 == IF evict
               THEN [MakeStopped(st0, lowest) EXCEPT
                       !.victim = lowest, !.stopped = sourceStopped(c, lowest, TRUE)]
               ELSE st0
    IN IF st1.stack = <<>>
       THEN [st1 EXCEPT !.err = "ResourceExhausted"]
       ELSE TakeTop(st1)

\* writes the pool part of context c back
SetPool(c, st) ==
  /\ mSourceIds' = [mSourceIds EXCEPT ![c] = st.stack]
  /\ srcId' = [srcId EXCEPT ![c] = st.ids]
  /\ hwSources' = [hwSources EXCEPT ![c] = st.hw]
  /\ mStreamingSources' = [mStreamingSources EXCEPT ![c] = st.stream]

otherCtxVars == <<mContext, devContexts, mBuffers, mPendingBuffers, mThread, mQuitThread,
                  mWakeInterval>>

GetSourceId(t, c, maxprio) ==
  /\ pc[t] = "idle"
  /\ mContext[c]
  /\ IF ~CheckContext(t, c) THEN
       /\ ret' = Ret(t, "getSourceId", c, maxprio, 0, "InvalidOperation")
       /\ UNCHANGED <<mSourceIds, srcId, hwSources, mStreamingSources>>
     ELSE LET st == GetSourceIdBody(c, maxprio) IN
       /\ SetPool(c, st)
       /\ ret' = [Ret(t, "getSourceId", c, maxprio, st.val, st.err)
                   EXCEPT !.evicted = st.victim, !.stopped = st.stopped]
  /\ UNCHANGED <<bindVars, envVars, decodeVars, bindCalls, lockVars, otherCtxVars, workVars, bufs,
                 mAllSources, mFreeSources, mUsedSources, srcPrio, pc, callVars>>

\* mFreeSources is used through back(), pop(), push() and empty(): a queue
\* whose back() is the newest element and whose pop() removes the oldest
FreeListFront(free) == free[1]
FreeListBack(free) == free[Len(free)]
FreeListPop(free) == Tail(free)

\* ALContext::createSource after CheckContext (lines 683-698)
CreateSourceBody(t, c) ==
  /\ mFreeSources[c] # <<>> \/ mAllSources[c] < MaxSources
  /\ LET free == mFreeSources[c]
         source == IF free # <<>> THEN FreeListBack(free) ELSE mAllSources[c] + 1
         i == LowerBound(mUsedSources[c], source)
         used == mUsedSources[c]
     IN /\ mFreeSources' = [mFreeSources EXCEPT ![c] =
                              IF free # <<>> THEN FreeListPop(free) ELSE free]
        /\ mAllSources' = [mAllSources EXCEPT ![c] =
                              IF free # <<>> THEN @ ELSE @ + 1]
        /\ mUsedSources' = [mUsedSources EXCEPT ![c] =
                              IF i > Len(used) \/ used[i] # source
                              THEN InsertAt(used, i, source) ELSE used]
        /\ ret' = Ret(t, "createSource", c, 0, source, "ok")

\* ALContext::createSource (lines 679-698)
CreateSourceUnchecked(t, c) ==
  /\ pc[t] = "idle"
  /\ mContext[c]
  /\ CreateSourceBody(t, c)
  /\ UNCHANGED <<bindVars, envVars, decodeVars, bindCalls, lockVars, ctxVars, workVars, bufs,
                 srcId, srcPrio, mSourceIds, hwSources, pc, callVars>>
CreateSource(t, c) ==
  /\ pc[t] = "idle"
  /\ mContext[c]
  /\ IF ~CheckContext(t, c) THEN
       /\ ret' = Ret(t, "createSource", c, 0, 0, "InvalidOperation")
       /\ UNCHANGED <<mAllSources, mFreeSources, mUsedSources>>
     ELSE CreateSourceBody(t, c)
  /\ UNCHANGED <<bindVars, envVars, decodeVars, bindCalls, lockVars, ctxVars, workVars, bufs,
                 srcId, srcPrio, mSourceIds, hwSources, pc, callVars>>

\* ALContext::freeSource (lines 700-705), called for a live, stopped source
FreeSource(t, c, s) ==
  /\ pc[t] = "idle"
  /\ mContext[c]
  /\ s \in Range(mUsedSources[c])
  /\ srcId[c][s] = 0
  /\ CheckContext(t, c)
  /\ LET used == mUsedSources[c]
         i == LowerBound(used, s)
     IN mUsedSources' = [mUsedSources EXCEPT ![c] =
                           IF i <= Len(used) /\ used[i] = s
                           THEN EraseAt(used, i) ELSE used]
  /\ mFreeSources' = [mFreeSources EXCEPT ![c] = Append(@, s)]
  /\ ret' = Ret(t, "freeSource", c, s, 0, "ok")
  /\ UNCHANGED <<bindVars, envVars, decodeVars, bindCalls, lockVars, ctxVars, workVars, bufs,
                 mAllSources, srcId, srcPrio, mSourceIds, hwSources, pc, callVars>>

\* ALSource::play(): takes a voice with the source's priority
Play(t, c, s) ==
  /\ pc[t] = "idle"
  /\ mContext[c]
  /\ s \in Range(mUsedSources[c])
  /\ srcId[c][s] = 0
  /\ CheckContext(t, c)
  /\ LET st == GetSourceIdBody(c, srcPrio[c][s]) IN
       /\ SetPool(c, IF st.err = "ok" THEN [st EXCEPT !.ids[s] = st.val] ELSE st)
       /\ ret' = [Ret(t, "play", c, s, st.val, st.err) EXCEPT !.evicted = st.victim,
                                                               !.stopped = st.stopped]
  /\ UNCHANGED <<bindVars, envVars, decodeVars, bindCalls, lockVars, otherCtxVars, workVars, bufs,
                 mAllSources, mFreeSources, mUsedSources, srcPrio, pc, callVars>>

\* ALSource::stop(): the source gives its voice back
Stop(t, c, s) ==
  /\ pc[t] = "idle"
  /\ mContext[c]
  /\ s \in Range(mUsedSources[c])
  /\ srcId[c][s] # 0
  /\ CheckContext(t, c)
  /\ SetPool(c, MakeStopped(PoolState(c), s))
  /\ ret' = Ret(t, "stop", c, 0, 0, "ok")
  /\ UNCHANGED <<bindVars, envVars, decodeVars, bindCalls, lockVars, otherCtxVars, workVars, bufs,
                 mAllSources, mFreeSources, mUsedSources, srcPrio, pc, callVars>>

\* ALSource::setPriority()
SetPriority(t, c, s, p) ==
  /\ pc[t] = "idle"
  /\ mContext[c]
  /\ s \in Range(mUsedSources[c])
  /\ srcPrio[c][s] # p
  /\ CheckContext(t, c)
  /\ srcPrio' = [srcPrio EXCEPT ![c][s] = p]
  /\ ret' = Ret(t, "setPriority", c, 0, 0, "ok")
  /\ UNCHANGED <<bindVars, envVars, decodeVars, bindCalls, lockVars, ctxVars, workVars, bufs,
                 mAllSources, mFreeSources, mUsedSources, srcId, mSourceIds,
                 hwSources, pc, callVars>>

PoolThreads == {"t1"}
PoolCtxs == {"c1"}

NextPool ==
  \/ \E t \in PoolThreads, c \in PoolCtxs, p \in {0, MaxPrio} : GetSourceId(t, c, p)
  \/ \E t \in PoolThreads, c \in PoolCtxs : CreateSource(t, c)
  \/ \E t \in PoolThreads, c \in PoolCtxs, s \in 1..MaxSources : FreeSource(t, c, s)
  \/ \E t \in PoolThreads, c \in PoolCtxs, s \in 1..MaxSources : Play(t, c, s)
  \/ \E t \in PoolThreads, c \in PoolCtxs, s \in 1..MaxSources : Stop(t, c, s)
  \/ \E t \in PoolThreads, c \in PoolCtxs, s \in 1..MaxSources, p \in 0..MaxPrio :
       SetPriority(t, c, s, p)

\* the state after the application has created its contexts and made c1
\* current, as examples/alure-play.cpp does before any other call
InitCurrent ==
  /\ sCurrentCtx = "c1"
  /\ sThreadCurrentCtx = [t \in Threads |-> NoCtx]
  /\ alcCurrent = "c1"
  /\ alcThread = [t \in Threads \cup Workers |-> NoCtx]
  /\ hasSetThreadContext = FALSE
  /\ hasThreadLocalExt = FALSE
  /\ mRefs = [c \in Ctxs |-> IF c = "c1" THEN 1 ELSE 0]
  /\ mSetExts = [c \in Ctxs |-> IF c = "c1" THEN 1 ELSE 0]
  /\ bindCalls = [t \in Threads |-> IF t = "t1" THEN 1 ELSE 0]
  /\ ret = [NoRet EXCEPT !.thr = "t1", !.op = "MakeCurrent", !.ctx = "c1", !.seq = 1]
  /\ InitObjects

SpecPool == InitCurrent /\ [][NextPool]_vars

\* ALContext::setMessageHandler (context.cpp:447-452): the handler is swapped
\* under mContextMutex
SetMessageHandler(t, c, handler) ==
  /\ pc[t] = "idle"
  /\ mContext[c]
  /\ mContextMutex[c] = NoThread
  /\ mMessage' = [mMessage EXCEPT ![c] = handler]
  /\ ret' = Ret(t, "setMessageHandler", c, 0, 0, "ok")
  /\ UNCHANGED <<bindVars, envVars, sDecoders, regOrder, file, gd, loop_pts, sweep,
                 bindCalls, lockVars, ctxVars, workVars, bufs, poolVars, pc, callVars>>

\* the source pool of the current context with a message handler that is
\* set and cleared
NextEvict ==
  \/ \E t \in PoolThreads, c \in PoolCtxs, p \in {0, MaxPrio} : GetSourceId(t, c, p)
  \/ \E t \in PoolThreads, c \in PoolCtxs : CreateSource(t, c)
  \/ \E t \in PoolThreads, c \in PoolCtxs, s \in 1..MaxSources : Play(t, c, s)
  \/ \E t \in PoolThreads, c \in PoolCtxs, s \in 1..MaxSources : Stop(t, c, s)
  \/ \E t \in PoolThreads, c \in PoolCtxs, s \in 1..MaxSources, p \in 0..MaxPrio :
       SetPriority(t, c, s, p)
  \/ \E t \in PoolThreads, c \in PoolCtxs, h \in BOOLEAN : SetMessageHandler(t, c, h)

SpecEvict == InitCurrent /\ [][NextEvict]_vars

\* the application thread and the context the loader is exercised with
LoadThreads == {"t1"}
LoadCtxs == {"c1"}

(***************************************************************************)
(* Buffer objects and the registry (buffer.h, context.cpp:494-637)         *)
(***************************************************************************)
\* std::hash<String>: implementation-defined; the registry is ordered by it
Hash(n) == IF n = "a" THEN 2 ELSE 1

\* ALBuffer::ALBuffer (buffer.h:35-38); 'record' follows the PendingBuffer
\* record made for the buffer: none yet, queued, loaded (executed and then
\* destroyed by the worker), dropped (destroyed by ~ALContext), or broken
\* when one of these happens to a record that is not queued
ALBufferPendingOnly(c, n, preloaded) ==
  [name |-> n, ctx |-> c, mLoadStatus |-> "Pending", mIsLoaded |-> preloaded,
   alive |-> TRUE, record |-> "none"]
ALBuffer(c, n, preloaded) ==
  [name |-> n, ctx |-> c,
   mLoadStatus |-> IF preloaded THEN "Ready" ELSE "Pending",
   mIsLoaded |-> preloaded, alive |-> TRUE, record |-> "none"]

\* ALBuffer::getLoadStatus(): the status becomes Ready once the load is done
getLoadStatus(b) ==
  IF bufs[b].mLoadStatus = "Pending" /\ bufs[b].mIsLoaded THEN "Ready"
  ELSE bufs[b].mLoadStatus

\* ALBuffer::load(): decode, upload, then flag the buffer as loaded
BufferLoad(bs, b) == [bs EXCEPT ![b].mIsLoaded = TRUE]

\* std::lower_bound over mBuffers ordered by hasher(name)
RECURSIVE BufLowerBoundFrom(_, _, _)
BufLowerBoundFrom(q, h, i) ==
  IF i > Len(q) THEN i
  ELSE IF Hash(bufs[q[i]].name) >= h THEN i
  ELSE BufLowerBoundFrom(q, h, i + 1)
BufLowerBound(c, n) == BufLowerBoundFrom(mBuffers[c], Hash(n), 1)

\* iter != mBuffers.end() && (*iter)->getName() == name
BufFoundNever(c, n, i) == FALSE
BufFound(c, n, i) == i <= Len(mBuffers[c]) /\ bufs[mBuffers[c][i]].name = n

\* line 508: the wait loop of getBuffer ends when the status is not Pending
WaitOverAlways(status) == TRUE
WaitOver(status) == status # "Pending"

\* lines 611-612: the producer may write while the ring has room
WriteSpace(c) == RingSize - Len(mPendingBuffers[c])

loadFrame == <<ctxArg, nameArg, iter, newBuf>>
idleFrame == <<lock1, lock2, oldCtx>>

\* ALContext::getBuffer (lines 494-512): CheckContext and the lookup
GB_Lookup(t, c, n) ==
  /\ pc[t] = "idle"
  /\ mContext[c]
  /\ IF ~CheckContext(t, c) THEN
       /\ ret' = [Ret(t, "getBuffer", c, 0, 0, "InvalidOperation") EXCEPT !.name = n]
       /\ UNCHANGED <<pc, loadFrame>>
     ELSE LET i == BufLowerBound(c, n) IN
       /\ ctxArg' = [ctxArg EXCEPT ![t] = c]
       /\ nameArg' = [nameArg EXCEPT ![t] = n]
       /\ iter' = [iter EXCEPT ![t] = i]
       /\ newBuf' = [newBuf EXCEPT ![t] = IF BufFound(c, n, i) THEN mBuffers[c][i] ELSE 0]
       /\ pc' = [pc EXCEPT ![t] = IF BufFound(c, n, i) THEN "gb_wait" ELSE "gb_insert"]
       /\ UNCHANGED ret
  /\ UNCHANGED <<bindVars, envVars, decodeVars, bindCalls, lockVars, ctxVars, workVars, bufs,
                 poolVars, idleFrame>>

\* lines 507-510: yield until the buffer's status is not Pending, return it
GB_Wait(t) ==
  /\ pc[t] = "gb_wait"
  /\ LET b == newBuf[t] IN
       /\ WaitOver(getLoadStatus(b))
       /\ bufs' = [bufs EXCEPT ![b].mLoadStatus = getLoadStatus(b)]
       /\ ret' = [Ret(t, "getBuffer", ctxArg[t], 1, b, "ok") EXCEPT !.name = nameArg[t]]
  /\ pc' = [pc EXCEPT ![t] = "idle"]
  /\ ResetCall(t)
  /\ UNCHANGED <<bindVars, envVars, decodeVars, bindCalls, lockVars, ctxVars, workVars, poolVars>>

\* lines 514-568: decode and upload; any failure throws and changes nothing;
\* on success the preloaded buffer is inserted at the looked-up position
GB_Insert(t) ==
  /\ pc[t] = "gb_insert"
  /\ LET c == ctxArg[t]
         n == nameArg[t]
         b == Len(bufs) + 1
     IN \E ok \in BOOLEAN :
          IF ok /\ b <= MaxBuffers THEN
            /\ bufs' = Append(bufs, ALBuffer(c, n, TRUE))
            /\ mBuffers' = [mBuffers EXCEPT ![c] = InsertAt(@, iter[t], b)]
            /\ ret' = [Ret(t, "getBuffer", c, 0, b, "ok") EXCEPT !.name = n]
          ELSE
            /\ ~ok
            /\ ret' = [Ret(t, "getBuffer", c, 0, 0, "runtime_error") EXCEPT !.name = n]
            /\ UNCHANGED <<bufs, mBuffers>>
  /\ pc' = [pc EXCEPT ![t] = "idle"]
  /\ ResetCall(t)
  /\ UNCHANGED <<bindVars, envVars, decodeVars, bindCalls, lockVars, mContext, devContexts,
                 mPendingBuffers, mThread, mQuitThread, mWakeInterval,
                 mStreamingSources, workVars, poolVars>>

\* ALContext::getBufferAsync (lines 571-606): CheckContext, the lookup, and
\* for an absent name the creation of the Pending buffer object
GBA_LookupUpTo(t, c, n, limit) ==
  /\ pc[t] = "idle"
  /\ mContext[c]
  /\ IF ~CheckContext(t, c) THEN
       /\ ret' = [Ret(t, "getBufferAsync", c, 0, 0, "InvalidOperation") EXCEPT !.name = n]
       /\ UNCHANGED <<pc, loadFrame, bufs>>
     ELSE LET i == BufLowerBound(c, n)
              b == Len(bufs) + 1
          IN IF BufFound(c, n, i) THEN
               /\ ret' = [Ret(t, "getBufferAsync", c, 1, mBuffers[c][i], "ok")
                            EXCEPT !.name = n]
               /\ UNCHANGED <<pc, loadFrame, bufs>>
             ELSE \E ok \in BOOLEAN :
               IF ok /\ b <= limit THEN
                 /\ bufs' = Append(bufs, ALBuffer(c, n, FALSE))
                 /\ ctxArg' = [ctxArg EXCEPT ![t] = c]
                 /\ nameArg' = [nameArg EXCEPT ![t] = n]
                 /\ iter' = [iter EXCEPT ![t] = i]
                 /\ newBuf' = [newBuf EXCEPT ![t] = b]
                 /\ pc' = [pc EXCEPT ![t] = "gba_start"]
                 /\ UNCHANGED ret
               ELSE
                 /\ ~ok
                 /\ ret' = [Ret(t, "getBufferAsync", c, 0, 0, "runtime_error")
                              EXCEPT !.name = n]
                 /\ UNCHANGED <<pc, loadFrame, bufs>>
  /\ UNCHANGED <<bindVars, envVars, decodeVars, bindCalls, lockVars, ctxVars, workVars,
                 poolVars, idleFrame>>

GBA_Lookup(t, c, n) == GBA_LookupUpTo(t, c, n, MaxBuffers)

\* mThread.get_id() == std::thread::id(): mThread holds no thread of execution
NoWorker(c) == mThread[c] \in {"none", "joined"}

\* mThread = std::thread(&ALContext::backgroundProc, this): the worker
\* starts; assigning to an mThread that already holds a running thread is
\* the start of a second worker for the context
StartWorker(c) ==
  IF NoWorker(c)
    THEN /\ mThread' = [mThread EXCEPT ![c] = "running"]
         /\ wpc' = [wpc EXCEPT ![c] = "w_start"]
    ELSE /\ mThread' = [mThread EXCEPT ![c] = "started_twice"]
         /\ UNCHANGED wpc

\* line 608: is there a worker thread?
GBA_Start(t) ==
  /\ pc[t] = "gba_start"
  /\ pc' = [pc EXCEPT ![t] = IF NoWorker(ctxArg[t]) THEN "gba_thread" ELSE "gba_enqueue"]
  /\ UNCHANGED <<bindVars, envVars, decodeVars, bindCalls, lockVars, ctxVars, workVars, bufs,
                 poolVars, callVars, ret>>

\* line 609: there was none, the worker thread is started
GBA_Thread(t) ==
  /\ pc[t] = "gba_thread"
  /\ StartWorker(ctxArg[t])
  /\ pc' = [pc EXCEPT ![t] = "gba_enqueue"]
  /\ UNCHANGED <<bindVars, envVars, decodeVars, bindCalls, lockVars, mContext, devContexts,
                 mBuffers, mPendingBuffers, mQuitThread, mWakeInterval,
                 mStreamingSources, wWoken, bufs, poolVars, callVars, ret>>

\* lines 614-616: a PendingBuffer is constructed in the write slot
NewRecord(bs, b) ==
  [bs EXCEPT ![b].record = IF @ = "none" THEN "queued" ELSE "broken"]

\* lines 329-331: the record's load is executed, the record is destroyed
LoadRecord(bs, b) ==
  [BufferLoad(bs, b) EXCEPT ![b].record = IF @ = "queued" THEN "loaded" ELSE "broken"]

\* ~ALContext (lines 383-397): the records still in the ring are destroyed
\* without being executed
RECURSIVE DropRecords(_, _)
DropNone(bs, q) == bs
DropRecords(bs, q) ==
  IF q = <<>> THEN bs
  ELSE DropRecords([bs EXCEPT ![Head(q).mBuffer].record =
                      IF @ = "queued" THEN "dropped" ELSE "broken"], Tail(q))

\* lines 611-616: wait for room, construct the PendingBuffer, write_advance
GBA_Enqueue(t) ==
  /\ pc[t] = "gba_enqueue"
  /\ WriteSpace(ctxArg[t]) > 0
  /\ mPendingBuffers' = [mPendingBuffers EXCEPT ![ctxArg[t]] =
                           Append(@, [mBuffer |-> newBuf[t], mName |-> nameArg[t]])]
  /\ bufs' = NewRecord(bufs, newBuf[t])
  /\ pc' = [pc EXCEPT ![t] = "gba_wakelock"]
  /\ UNCHANGED <<bindVars, envVars, decodeVars, bindCalls, lockVars, mContext, devContexts,
                 mBuffers, mThread, mQuitThread, mWakeInterval, mStreamingSources,
                 workVars, poolVars, callVars, ret>>

\* line 617: mWakeMutex.lock(); mWakeMutex.unlock()
GBA_WakeLockSkipped(t) ==
  /\ pc[t] = "gba_wakelock"
  /\ pc' = [pc EXCEPT ![t] = "gba_notify"]
  /\ UNCHANGED <<bindVars, envVars, decodeVars, bindCalls, lockVars, ctxVars, workVars, bufs,
                 poolVars, callVars, ret>>
GBA_WakeLock(t) ==
  /\ pc[t] = "gba_wakelock"
  /\ mWakeMutex[ctxArg[t]] = NoThread
  /\ pc' = [pc EXCEPT ![t] = "gba_notify"]
  /\ UNCHANGED <<bindVars, envVars, decodeVars, bindCalls, lockVars, ctxVars, workVars, bufs,
                 poolVars, callVars, ret>>

\* line 618: mWakeThread.notify_all()
GBA_Notify(t) ==
  /\ pc[t] = "gba_notify"
  /\ wWoken' = NotifyAll(wWoken, ctxArg[t])
  /\ pc' = [pc EXCEPT ![t] = "gba_insert"]
  /\ UNCHANGED <<bindVars, envVars, decodeVars, bindCalls, lockVars, ctxVars, wpc, bufs,
                 poolVars, callVars, ret>>

\* line 620: the Pending buffer is inserted and returned
GBA_Insert(t) ==
  /\ pc[t] = "gba_insert"
  /\ mBuffers' = [mBuffers EXCEPT ![ctxArg[t]] = InsertAt(@, iter[t], newBuf[t])]
  /\ ret' = [Ret(t, "getBufferAsync", ctxArg[t], 0, newBuf[t], "ok")
               EXCEPT !.name = nameArg[t]]
  /\ pc' = [pc EXCEPT ![t] = "idle"]
  /\ ResetCall(t)
  /\ UNCHANGED <<bindVars, envVars, decodeVars, bindCalls, lockVars, mContext, devContexts,
                 mPendingBuffers, mThread, mQuitThread, mWakeInterval,
                 mStreamingSources, workVars, bufs, poolVars>>

GetBuffer(t) ==
  \/ \E c \in LoadCtxs, n \in Names : GB_Lookup(t, c, n)
  \/ GB_Wait(t)
  \/ GB_Insert(t)

GetBufferAsync(t) ==
  \/ \E c \in LoadCtxs, n \in Names : GBA_Lookup(t, c, n)
  \/ GBA_Start(t)
  \/ GBA_Thread(t)
  \/ GBA_Enqueue(t)
  \/ GBA_WakeLock(t)
  \/ GBA_Notify(t)
  \/ GBA_Insert(t)

\* ALContext::removeBuffer (lines 624-637)
\* ALBuffer::cleanup: the buffer is detached and destroyed
cleanup(bs, b) == [bs EXCEPT ![b].alive = FALSE]

RemoveBuffer(t, c, n) ==
  /\ pc[t] = "idle"
  /\ mContext[c]
  /\ IF ~CheckContext(t, c) THEN
       /\ ret' = [Ret(t, "removeBuffer", c, 0, 0, "InvalidOperation") EXCEPT !.name = n]
       /\ UNCHANGED <<bufs, mBuffers>>
     ELSE LET i == BufLowerBound(c, n) IN
       IF BufFound(c, n, i) THEN
         /\ bufs' = cleanup(bufs, mBuffers[c][i])
         /\ mBuffers' = [mBuffers EXCEPT ![c] = EraseAt(@, i)]
         /\ ret' = [Ret(t, "removeBuffer", c, 1, 0, "ok") EXCEPT !.name = n]
       ELSE
         /\ ret' = [Ret(t, "removeBuffer", c, 0, 0, "ok") EXCEPT !.name = n]
         /\ UNCHANGED <<bufs, mBuffers>>
  /\ UNCHANGED <<bindVars, envVars, decodeVars, bindCalls, lockVars, mContext, devContexts,
                 mPendingBuffers, mThread, mQuitThread, mWakeInterval,
                 mStreamingSources, workVars, poolVars, pc, callVars>>

\* Buffer::getLoadStatus() polled by the application on a buffer it holds
PollStatus(t, b) ==
  /\ pc[t] = "idle"
  /\ b \in DOMAIN bufs
  /\ bufs[b].alive
  /\ getLoadStatus(b) # bufs[b].mLoadStatus
  /\ bufs' = [bufs EXCEPT ![b].mLoadStatus = getLoadStatus(b)]
  /\ ret' = Ret(t, "getLoadStatus", bufs[b].ctx, b, 0, "ok")
  /\ UNCHANGED <<bindVars, envVars, decodeVars, bindCalls, lockVars, ctxVars, workVars,
                 poolVars, pc, callVars>>

(***************************************************************************)
(* ALContext::backgroundProc (context.cpp:301-363)                         *)
(***************************************************************************)
W(c) == WorkerOf[c]
quietCtx == <<mContext, devContexts, mBuffers, mThread, mQuitThread, mWakeInterval>>

\* lines 303-304: bind the context on the worker thread if the backend can
W_Start(c) ==
  /\ wpc[c] = "w_start"
  /\ alcThread' = IF hasSetThreadContext /\ hasThreadLocalExt
                  THEN [alcThread EXCEPT ![W(c)] = c] ELSE alcThread
  /\ wpc' = [wpc EXCEPT ![c] = "w_lockctx"]
  /\ UNCHANGED <<sCurrentCtx, sThreadCurrentCtx, alcCurrent, mRefs, mSetExts,
                 envVars, decodeVars, bindCalls, lockVars, ctxVars, wWoken, bufs, poolVars,
                 pc, callVars, ret>>

\* line 308: ctxlock(mContextMutex)
W_LockCtx(c) ==
  /\ wpc[c] = "w_lockctx"
  /\ mContextMutex[c] = NoThread
  /\ mContextMutex' = [mContextMutex EXCEPT ![c] = W(c)]
  /\ wpc' = [wpc EXCEPT ![c] = "w_loop"]
  /\ UNCHANGED <<bindVars, envVars, decodeVars, bindCalls, mWakeMutex, ctxVars, wWoken, bufs,
                 poolVars, pc, callVars, ret>>

\* line 309: the loop condition
W_Loop(c) ==
  /\ wpc[c] = "w_loop"
  /\ wpc' = [wpc EXCEPT ![c] = IF mQuitThread[c] THEN "w_exit" ELSE "w_sweep"]
  /\ UNCHANGED <<bindVars, envVars, decodeVars, bindCalls, lockVars, ctxVars, wWoken, bufs,
                 poolVars, pc, callVars, ret>>

\* mSourceStreamMutex is held by the thread that is inside addStream, or by
\* the worker during its sweep
StreamMutexFree(c) ==
  /\ wpc[c] # "w_sweeping"
  /\ \A u \in Threads : ~(ctxArg[u] = c /\ pc[u] \in {"as_thread", "as_insert"})

\* line 311: srclock(mSourceStreamMutex), taken while ctxlock is held
W_LockStream(c) ==
  /\ wpc[c] = "w_sweep"
  /\ StreamMutexFree(c)
  /\ wpc' = [wpc EXCEPT ![c] = "w_sweeping"]
  /\ UNCHANGED <<bindVars, envVars, decodeVars, bindCalls, lockVars, ctxVars, wWoken, bufs,
                 poolVars, pc, callVars, ret>>

\* mStreamingSources from begin() to end(): the vector is kept sorted
RECURSIVE SortedSeq(_)
SortedSeq(S) ==
  IF S = {} THEN <<>>
  ELSE LET first == CHOOSE s \in S : \A u \in S : s <= u
       IN  <<first>> \o SortedSeq(S \ {first})

\* lines 313-319 from position i of vector v, where more[s] is what
\* updateAsync of source s returns: the vector that remains and the sources
\* that were updated
RECURSIVE SweepSkipping(_, _, _)
RECURSIVE SweepFrom(_, _, _)
SweepSkipping(v, i, more) ==
  IF i > Len(v) THEN [v |-> v, upd |-> {}]
  ELSE LET rest == IF ~more[v[i]] THEN SweepSkipping(EraseAt(v, i), i + 1, more)
                   ELSE SweepSkipping(v, i + 1, more)
       IN  [v |-> rest.v, upd |-> rest.upd \cup {v[i]}]

SweepFrom(v, i, more) ==
  IF i > Len(v) THEN [v |-> v, upd |-> {}]
  ELSE LET rest == IF ~more[v[i]] THEN SweepFrom(EraseAt(v, i), i, more)
                   ELSE SweepFrom(v, i + 1, more)
       IN  [v |-> rest.v, upd |-> rest.upd \cup {v[i]}]

\* lines 312-321: every streaming source is updated once; those whose
\* update reports completion are erased; srclock goes out of scope
W_Sweep(c) ==
  /\ wpc[c] = "w_sweeping"
  /\ \E more \in [mStreamingSources[c] -> BOOLEAN] :
       LET res == SweepFrom(SortedSeq(mStreamingSources[c]), 1, more) IN
         /\ mStreamingSources' = [mStreamingSources EXCEPT ![c] = Range(res.v)]
         /\ sweep' = [sweep EXCEPT ![c] = [upd |-> res.upd,
                                           done |-> {s \in res.upd : ~more[s]},
                                           stale |-> @.stale \ res.upd]]
  /\ wpc' = [wpc EXCEPT ![c] = "w_load"]
  /\ UNCHANGED <<bindVars, envVars, sDecoders, regOrder, file, gd, loop_pts, mMessage, bindCalls,
                 lockVars, mContext, devContexts,
                 mBuffers, mPendingBuffers, mThread, mQuitThread, mWakeInterval,
                 wWoken, bufs, poolVars, pc, callVars, ret>>

\* lines 326-334: at most one pending buffer is loaded, then the loop
\* restarts; with an empty queue the worker goes on to mWakeMutex
W_Load(c) ==
  /\ wpc[c] = "w_load"
  /\ IF Len(mPendingBuffers[c]) > 0
     THEN /\ bufs' = LoadRecord(bufs, Head(mPendingBuffers[c]).mBuffer)
          /\ mPendingBuffers' = [mPendingBuffers EXCEPT ![c] = Tail(@)]
          /\ wpc' = [wpc EXCEPT ![c] = "w_loop"]
          /\ sweep' = [sweep EXCEPT ![c] = [upd |-> {}, done |-> {},
                                            stale |-> mStreamingSources[c]]]
     ELSE /\ wpc' = [wpc EXCEPT ![c] = "w_lockwake"]
          /\ sweep' = [sweep EXCEPT ![c] = [upd |-> {}, done |-> {}, stale |-> @.stale]]
          /\ UNCHANGED <<bufs, mPendingBuffers>>
  /\ UNCHANGED <<bindVars, envVars, sDecoders, regOrder, file, gd, loop_pts, mMessage, bindCalls,
                 lockVars, quietCtx,
                 mStreamingSources, wWoken, poolVars, pc, callVars, ret>>

\* line 336: wakelock(mWakeMutex)
W_LockWake(c) ==
  /\ wpc[c] = "w_lockwake"
  /\ mWakeMutex[c] = NoThread
  /\ mWakeMutex' = [mWakeMutex EXCEPT ![c] = W(c)]
  /\ wpc' = [wpc EXCEPT ![c] = "w_idlecheck"]
  /\ UNCHANGED <<bindVars, envVars, decodeVars, bindCalls, mContextMutex, ctxVars, wWoken,
                 bufs, poolVars, pc, callVars, ret>>

\* lines 336-352: wakelock goes out of scope at the end of its block
WakeUnlockSkipped(m, c) == m
WakeUnlock(m, c) == [m EXCEPT ![c] = NoThread]

\* line 337: the condition checked while wakelock is held; when it fails
\* wakelock goes out of scope and the loop restarts (the worker still holds
\* ctxlock)
W_IdleCheck(c) ==
  /\ wpc[c] = "w_idlecheck"
  /\ IF ~mQuitThread[c] /\ Len(mPendingBuffers[c]) = 0
     THEN /\ wpc' = [wpc EXCEPT ![c] = "w_idle_towait"]
          /\ UNCHANGED mWakeMutex
     ELSE /\ wpc' = [wpc EXCEPT ![c] = "w_loop"]
          /\ mWakeMutex' = WakeUnlock(mWakeMutex, c)
  /\ UNCHANGED <<bindVars, envVars, decodeVars, bindCalls, mContextMutex, ctxVars, wWoken,
                 bufs, poolVars, pc, callVars, ret>>

\* lines 339-350: ctxlock.unlock(), then the wait on mWakeThread releases
\* mWakeMutex as it blocks; timed when a wake interval is set
W_IdleWait(c) ==
  /\ wpc[c] = "w_idle_towait"
  /\ mContextMutex' = [mContextMutex EXCEPT ![c] = NoThread]
  /\ mWakeMutex' = [mWakeMutex EXCEPT ![c] = NoThread]
  /\ wWoken' = [wWoken EXCEPT ![c] = FALSE]
  /\ wpc' = [wpc EXCEPT ![c] = IF mWakeInterval[c] = 0 THEN "w_idle_wait"
                               ELSE "w_idle_wait_timed"]
  /\ UNCHANGED <<bindVars, envVars, decodeVars, bindCalls, ctxVars, bufs, poolVars, pc,
                 callVars, ret>>

\* line 349: wait_until reaches its wake time
W_Timeout(c) ==
  /\ wpc[c] = "w_idle_wait_timed"
  /\ ~wWoken[c]
  /\ wWoken' = [wWoken EXCEPT ![c] = TRUE]
  /\ UNCHANGED <<bindVars, envVars, decodeVars, bindCalls, lockVars, ctxVars, wpc, bufs,
                 poolVars, pc, callVars, ret>>

\* a condition-variable wait may return without a notification
W_Spurious(c) ==
  /\ wpc[c] \in {"w_idle_wait", "w_idle_wait_timed", "w_ctx_wait"}
  /\ ~wWoken[c]
  /\ wWoken' = [wWoken EXCEPT ![c] = TRUE]
  /\ UNCHANGED <<bindVars, envVars, decodeVars, bindCalls, lockVars, ctxVars, wpc, bufs,
                 poolVars, pc, callVars, ret>>

\* lines 343-351: the wait returns (re-acquiring mWakeMutex), wakelock.unlock()
W_IdleWake(c) ==
  /\ wpc[c] \in {"w_idle_wait", "w_idle_wait_timed"}
  /\ wWoken[c]
  /\ mWakeMutex[c] = NoThread
  /\ wWoken' = [wWoken EXCEPT ![c] = FALSE]
  /\ wpc' = [wpc EXCEPT ![c] = "w_relock"]
  /\ UNCHANGED <<bindVars, envVars, decodeVars, bindCalls, lockVars, ctxVars, bufs, poolVars,
                 pc, callVars, ret>>

\* line 353: ctxlock.lock()
W_Relock(c) ==
  /\ wpc[c] = "w_relock"
  /\ mContextMutex[c] = NoThread
  /\ mContextMutex' = [mContextMutex EXCEPT ![c] = W(c)]
  /\ wpc' = [wpc EXCEPT ![c] = "w_ctxcheck"]
  /\ UNCHANGED <<bindVars, envVars, decodeVars, bindCalls, mWakeMutex, ctxVars, wWoken, bufs,
                 poolVars, pc, callVars, ret>>

\* lines 354-355: the condition of the wait for the context to be current
W_CtxCheck(c) ==
  /\ wpc[c] = "w_ctxcheck"
  /\ wpc' = [wpc EXCEPT ![c] =
               IF ~mQuitThread[c] /\ alcGetCurrentContext(W(c)) # c
               THEN "w_ctx_towait" ELSE "w_loop"]
  /\ UNCHANGED <<bindVars, envVars, decodeVars, bindCalls, lockVars, ctxVars, wWoken, bufs,
                 poolVars, pc, callVars, ret>>

\* line 356: mWakeThread.wait(ctxlock) releases ctxlock and blocks
W_CtxWait(c) ==
  /\ wpc[c] = "w_ctx_towait"
  /\ mContextMutex' = [mContextMutex EXCEPT ![c] = NoThread]
  /\ wWoken' = [wWoken EXCEPT ![c] = FALSE]
  /\ wpc' = [wpc EXCEPT ![c] = "w_ctx_wait"]
  /\ UNCHANGED <<bindVars, envVars, decodeVars, bindCalls, mWakeMutex, ctxVars, bufs,
                 poolVars, pc, callVars, ret>>

\* line 356: the wait returns, re-acquiring ctxlock
W_CtxWake(c) ==
  /\ wpc[c] = "w_ctx_wait"
  /\ wWoken[c]
  /\ mContextMutex[c] = NoThread
  /\ mContextMutex' = [mContextMutex EXCEPT ![c] = W(c)]
  /\ wWoken' = [wWoken EXCEPT ![c] = FALSE]
  /\ wpc' = [wpc EXCEPT ![c] = "w_ctxcheck"]
  /\ UNCHANGED <<bindVars, envVars, decodeVars, bindCalls, mWakeMutex, ctxVars, bufs,
                 poolVars, pc, callVars, ret>>

\* lines 359-362: ctxlock.unlock(), the thread's binding is cleared
W_Exit(c) ==
  /\ wpc[c] = "w_exit"
  /\ mContextMutex' = [mContextMutex EXCEPT ![c] = NoThread]
  /\ alcThread' = IF hasSetThreadContext
                  THEN [alcThread EXCEPT ![W(c)] = NoCtx] ELSE alcThread
  /\ wpc' = [wpc EXCEPT ![c] = "w_exited"]
  /\ UNCHANGED <<sCurrentCtx, sThreadCurrentCtx, alcCurrent, mRefs, mSetExts,
                 envVars, decodeVars, bindCalls, mWakeMutex, ctxVars, wWoken, bufs, poolVars,
                 pc, callVars, ret>>

\* the worker's steps while its context is current and no quit is requested
WorkerLoad(c) ==
  \/ W_Start(c)
  \/ W_LockCtx(c)
  \/ W_Loop(c)
  \/ W_LockStream(c)
  \/ W_Sweep(c)
  \/ W_Load(c)
  \/ W_LockWake(c)
  \/ W_IdleCheck(c)
  \/ W_IdleWait(c)
  \/ W_Timeout(c)
  \/ W_IdleWake(c)
  \/ W_Relock(c)
  \/ W_CtxCheck(c)

\* the steps that need another context to be current, or a quit request
WorkerPark(c) ==
  \/ W_CtxWait(c)
  \/ W_CtxWake(c)
  \/ W_Exit(c)

\* every step the worker takes by itself
WorkerRun(c) == WorkerLoad(c) \/ WorkerPark(c)

(***************************************************************************)
(* ALContext::destroy (context.cpp:405-425)                                *)
(***************************************************************************)
\* lines 407-410: both conditions a destroyable context must meet
DestroyAllowedRefsOnly(c) == mRefs[c] = 0
DestroyAllowed(c) == mRefs[c] = 0 /\ mBuffers[c] = <<>>

D_Check(t, c) ==
  /\ pc[t] = "idle"
  /\ mContext[c]
  /\ \A u \in Threads : ~(ctxArg[u] = c /\ pc[u] \in {"d_setquit", "d_notify", "d_join", "d_destroy"})
  /\ IF ~DestroyAllowed(c) THEN
       /\ ret' = Ret(t, "destroy", c, 0, 0, "runtime_error")
       /\ UNCHANGED <<pc, ctxArg>>
     ELSE
       /\ ctxArg' = [ctxArg EXCEPT ![t] = c]
       /\ pc' = [pc EXCEPT ![t] = IF mThread[c] = "running" THEN "d_setquit"
                                  ELSE "d_destroy"]
       /\ UNCHANGED ret
  /\ UNCHANGED <<bindVars, envVars, decodeVars, bindCalls, lockVars, ctxVars, workVars, bufs,
                 poolVars, lock1, lock2, oldCtx, nameArg, iter, newBuf>>

\* lines 414-416: the quit flag is stored while mWakeMutex is held
D_SetQuit(t) ==
  /\ pc[t] = "d_setquit"
  /\ mWakeMutex[ctxArg[t]] = NoThread
  /\ mQuitThread' = [mQuitThread EXCEPT ![ctxArg[t]] = TRUE]
  /\ pc' = [pc EXCEPT ![t] = "d_notify"]
  /\ UNCHANGED <<bindVars, envVars, decodeVars, bindCalls, lockVars, mContext, devContexts,
                 mBuffers, mPendingBuffers, mThread, mWakeInterval,
                 mStreamingSources, workVars, bufs, poolVars, callVars, ret>>

\* line 417: mWakeThread.notify_all()
D_Notify(t) ==
  /\ pc[t] = "d_notify"
  /\ wWoken' = NotifyAll(wWoken, ctxArg[t])
  /\ pc' = [pc EXCEPT ![t] = "d_join"]
  /\ UNCHANGED <<bindVars, envVars, decodeVars, bindCalls, lockVars, ctxVars, wpc, bufs,
                 poolVars, callVars, ret>>

\* line 418: mThread.join() returns once the worker has left backgroundProc
D_Join(t) ==
  /\ pc[t] = "d_join"
  /\ wpc[ctxArg[t]] = "w_exited"
  /\ mThread' = [mThread EXCEPT ![ctxArg[t]] = "joined"]
  /\ pc' = [pc EXCEPT ![t] = "d_destroy"]
  /\ UNCHANGED <<bindVars, envVars, decodeVars, bindCalls, lockVars, mContext, devContexts,
                 mBuffers, mPendingBuffers, mQuitThread, mWakeInterval,
                 mStreamingSources, workVars, bufs, poolVars, callVars, ret>>

\* lines 421-424: alcDestroyContext, mContext = nullptr, removeContext,
\* which deletes the context object (~ALContext, lines 383-397)
D_Destroy(t) ==
  /\ pc[t] = "d_destroy"
  /\ mContext' = [mContext EXCEPT ![ctxArg[t]] = FALSE]
  /\ devContexts' = devContexts \ {ctxArg[t]}
  /\ bufs' = DropRecords(bufs, mPendingBuffers[ctxArg[t]])
  /\ mPendingBuffers' = [mPendingBuffers EXCEPT ![ctxArg[t]] = <<>>]
  /\ ret' = Ret(t, "destroy", ctxArg[t], 0, 0, "ok")
  /\ pc' = [pc EXCEPT ![t] = "idle"]
  /\ ResetCall(t)
  /\ UNCHANGED <<bindVars, envVars, decodeVars, bindCalls, lockVars, mBuffers,
                 mThread, mQuitThread, mWakeInterval, mStreamingSources, workVars,
                 poolVars>>

DestroySteps(t) ==
  \/ D_SetQuit(t)
  \/ D_Notify(t)
  \/ D_Join(t)
  \/ D_Destroy(t)

Destroy(t) ==
  \/ \E c \in LoadCtxs : D_Check(t, c)
  \/ DestroySteps(t)

(***************************************************************************)
(* ALContext::setAsyncWakeInterval (context.cpp:455-460)                   *)
(***************************************************************************)
WakeIntervals == {0, 1}

\* line 457: mWakeInterval.store(msec)
SAWI_Store(t, c, msec) ==
  /\ pc[t] = "idle"
  /\ mContext[c]
  /\ msec # mWakeInterval[c]
  /\ mWakeInterval' = [mWakeInterval EXCEPT ![c] = msec]
  /\ ctxArg' = [ctxArg EXCEPT ![t] = c]
  /\ pc' = [pc EXCEPT ![t] = "sawi_notify"]
  /\ UNCHANGED <<bindVars, envVars, decodeVars, bindCalls, lockVars, mContext, devContexts,
                 mBuffers, mPendingBuffers, mThread, mQuitThread,
                 mStreamingSources, workVars, bufs, poolVars, lock1, lock2,
                 oldCtx, nameArg, iter, newBuf, ret>>

\* lines 458-459: mWakeMutex.lock(); unlock(); mWakeThread.notify_all()
SAWI_Notify(t) ==
  /\ pc[t] = "sawi_notify"
  /\ mWakeMutex[ctxArg[t]] = NoThread
  /\ wWoken' = NotifyAll(wWoken, ctxArg[t])
  /\ ret' = Ret(t, "setAsyncWakeInterval", ctxArg[t], 0, 0, "ok")
  /\ pc' = [pc EXCEPT ![t] = "idle"]
  /\ ResetCall(t)
  /\ UNCHANGED <<bindVars, envVars, decodeVars, bindCalls, lockVars, ctxVars, wpc, bufs, poolVars>>

SetAsyncWakeInterval(t) ==
  \/ \E c \in LoadCtxs, msec \in WakeIntervals : SAWI_Store(t, c, msec)
  \/ SAWI_Notify(t)

(***************************************************************************)
(* The loader: one application thread, the workers, and the binding        *)
(***************************************************************************)
NextLoad ==
  \/ \E t \in LoadThreads : GetBuffer(t)
  \/ \E t \in LoadThreads : GetBufferAsync(t)
  \/ \E t \in LoadThreads, c \in LoadCtxs, n \in Names : RemoveBuffer(t, c, n)
  \/ \E t \in LoadThreads, b \in 1..MaxBuffers : PollStatus(t, b)
  \/ \E t \in LoadThreads : SetAsyncWakeInterval(t)
  \/ \E c \in LoadCtxs : WorkerLoad(c)
  \/ \E c \in LoadCtxs : W_Spurious(c)

\* the context stays current: the loader in its normal operation
SpecLoad == InitCurrent /\ [][NextLoad]_vars

\* the asynchronous path alone: the producer, the worker and its wake-ups
NextAsync ==
  \/ \E t \in LoadThreads : GetBufferAsync(t)
  \/ \E t \in LoadThreads, c \in LoadCtxs, n \in Names : RemoveBuffer(t, c, n)
  \/ \E t \in LoadThreads : SetAsyncWakeInterval(t)
  \/ \E c \in LoadCtxs : WorkerLoad(c)
  \/ \E c \in LoadCtxs : W_Spurious(c)

SpecAsync == InitCurrent /\ [][NextAsync]_vars

\* a call that has begun runs to its end
InCall(t) ==
  /\ pc[t] # "idle"
  /\ GetBuffer(t) \/ GetBufferAsync(t) \/ SetAsyncWakeInterval(t) \/ DestroySteps(t) \/ MakeCurrent(t)

\* the worker thread and a call in progress keep being scheduled; a wait
\* that nobody notifies and that has no timeout need not return
FairLoad ==
  /\ \A c \in LoadCtxs : WF_vars(WorkerRun(c))
  /\ \A t \in LoadThreads : WF_vars(InCall(t))

FairSpecAsync == SpecAsync /\ FairLoad

\* the life of a context: bound, used by the loader, unbound, destroyed
LifeNames == {"a"}

NextLife ==
  \/ \E t \in LoadThreads : MakeCurrent(t)
  \/ \E t \in LoadThreads, c \in LoadCtxs, n \in LifeNames : GBA_Lookup(t, c, n)
  \/ \E t \in LoadThreads : GBA_Start(t) \/ GBA_Thread(t) \/ GBA_Enqueue(t) \/ GBA_WakeLock(t)
  \/ \E t \in LoadThreads : GBA_Notify(t) \/ GBA_Insert(t)
  \/ \E t \in LoadThreads, c \in LoadCtxs, n \in LifeNames : RemoveBuffer(t, c, n)
  \/ \E t \in LoadThreads : Destroy(t)
  \/ \E t \in LoadThreads : SetAsyncWakeInterval(t)
  \/ \E c \in LoadCtxs : WorkerRun(c)
  \/ \E c \in LoadCtxs : W_Spurious(c)

SpecLife == InitCurrent /\ [][NextLife]_vars

FairSpecLife == SpecLife /\ FairLoad

\* the state after one application thread has made any context, or none,
\* the process-wide current one, on a backend with or without thread-local
\* contexts
InitBound ==
  /\ \E cur \in CtxOrNone :
       /\ sCurrentCtx = cur
       /\ alcCurrent = cur
       /\ mRefs = [c \in Ctxs |-> IF c = cur THEN 1 ELSE 0]
       /\ mSetExts = [c \in Ctxs |-> IF c = cur THEN 1 ELSE 0]
       /\ ret = [NoRet EXCEPT !.thr = "t1", !.op = "MakeCurrent", !.ctx = cur,
                              !.seq = 1]
  /\ sThreadCurrentCtx = [t \in Threads |-> NoCtx]
  /\ alcThread = [t \in Threads \cup Workers |-> NoCtx]
  /\ hasSetThreadContext \in BOOLEAN
  /\ hasThreadLocalExt \in BOOLEAN
  /\ hasThreadLocalExt => hasSetThreadContext
  /\ bindCalls = [t \in Threads |-> IF t = "t1" THEN 1 ELSE 0]
  /\ InitObjects

\* the operations that check the caller's context, with the thread-local
\* binding calls of one application thread; the worker is not scheduled here
ApiThreads == {"t1"}

ApiNames == {"a"}

NextApi ==
  \/ \E t \in ApiThreads, c \in CtxOrNone : MakeThreadCurrent(t, c)
  \/ \E t \in ApiThreads, c \in LoadCtxs, n \in ApiNames : GB_Lookup(t, c, n)
  \/ \E t \in ApiThreads : GB_Wait(t) \/ GB_Insert(t)
  \/ \E t \in ApiThreads, c \in LoadCtxs, n \in ApiNames : GBA_Lookup(t, c, n)
  \/ \E t \in ApiThreads : GBA_Start(t) \/ GBA_Thread(t) \/ GBA_Enqueue(t) \/ GBA_WakeLock(t)
  \/ \E t \in ApiThreads : GBA_Notify(t) \/ GBA_Insert(t)
  \/ \E t \in ApiThreads, c \in LoadCtxs, n \in ApiNames : RemoveBuffer(t, c, n)
  \/ \E t \in ApiThreads, c \in PoolCtxs, maxprio \in 0..MaxPrio : GetSourceId(t, c, maxprio)
  \/ \E t \in ApiThreads, c \in PoolCtxs : CreateSource(t, c)

SpecApi == InitBound /\ [][NextApi]_vars

\* the registry alone: one application thread on the current context, with
\* a third name whose hash equals that of another
RegNames == {"a", "b", "c"}

NextRegistry ==
  \/ \E t \in LoadThreads, c \in LoadCtxs, n \in RegNames : GB_Lookup(t, c, n)
  \/ \E t \in LoadThreads : GB_Wait(t) \/ GB_Insert(t)
  \/ \E t \in LoadThreads, c \in LoadCtxs, n \in RegNames : GBA_Lookup(t, c, n)
  \/ \E t \in LoadThreads : GBA_Start(t) \/ GBA_Thread(t) \/ GBA_Enqueue(t) \/ GBA_WakeLock(t)
  \/ \E t \in LoadThreads : GBA_Notify(t) \/ GBA_Insert(t)
  \/ \E t \in LoadThreads, c \in LoadCtxs, n \in RegNames : RemoveBuffer(t, c, n)

SpecRegistry == InitCurrent /\ [][NextRegistry]_vars

\* the pending-load queue driven to its capacity: one application thread
\* requests and removes a buffer again and again while the worker may lag
\* behind, then unbinds (MakeCurrent(nullptr)) and destroys the context
QueueBuffers == RingSize + 1

NextQueue ==
  \/ \E t \in LoadThreads : MC_Begin(t, NoCtx) \/ MC_Lock1(t) \/ MC_Read2(t) \/ MC_Alc(t)
  \/ \E t \in LoadThreads : MC_AlcFail(t) \/ MC_SwapRead(t) \/ MC_SwapWrite(t) \/ MC_Finish(t)
  \/ \E t \in LoadThreads, c \in LoadCtxs, n \in LifeNames :
       GBA_LookupUpTo(t, c, n, QueueBuffers)
  \/ \E t \in LoadThreads : GBA_Start(t) \/ GBA_Thread(t) \/ GBA_Enqueue(t) \/ GBA_WakeLock(t)
  \/ \E t \in LoadThreads : GBA_Notify(t) \/ GBA_Insert(t)
  \/ \E t \in LoadThreads, c \in LoadCtxs, n \in LifeNames : RemoveBuffer(t, c, n)
  \/ \E t \in LoadThreads : Destroy(t)
  \/ \E c \in LoadCtxs : W_Start(c) \/ W_LockCtx(c) \/ W_Loop(c) \/ W_LockStream(c) \/ W_Sweep(c) \/ W_Load(c)
  \/ \E c \in LoadCtxs : W_LockWake(c) \/ W_IdleCheck(c) \/ W_IdleWait(c) \/ W_IdleWake(c)
  \/ \E c \in LoadCtxs : W_Relock(c) \/ W_CtxCheck(c) \/ WorkerPark(c)

SpecQueue == InitCurrent /\ [][NextQueue]_vars

(***************************************************************************)
(* ALContext::addStream (context.cpp:708-716) and the start of the worker  *)
(***************************************************************************)
\* lines 710-711: lock_guard, then the test for a worker thread
AS_Check(t, c, src) ==
  /\ pc[t] = "idle"
  /\ mContext[c]
  /\ StreamMutexFree(c)
  /\ ctxArg' = [ctxArg EXCEPT ![t] = c]
  /\ iter' = [iter EXCEPT ![t] = src]
  /\ pc' = [pc EXCEPT ![t] = IF NoWorker(c) THEN "as_thread" ELSE "as_insert"]
  /\ UNCHANGED <<bindVars, envVars, decodeVars, bindCalls, lockVars, ctxVars, workVars, bufs,
                 poolVars, lock1, lock2, oldCtx, nameArg, newBuf, ret>>

\* line 712
AS_Thread(t) ==
  /\ pc[t] = "as_thread"
  /\ StartWorker(ctxArg[t])
  /\ pc' = [pc EXCEPT ![t] = "as_insert"]
  /\ UNCHANGED <<bindVars, envVars, decodeVars, bindCalls, lockVars, mContext, devContexts,
                 mBuffers, mPendingBuffers, mQuitThread, mWakeInterval,
                 mStreamingSources, wWoken, bufs, poolVars, callVars, ret>>

\* lines 713-716: the source joins the sorted set, the mutex is released
AS_Insert(t) ==
  /\ pc[t] = "as_insert"
  /\ mStreamingSources' = [mStreamingSources EXCEPT ![ctxArg[t]] = @ \cup {iter[t]}]
  /\ ret' = Ret(t, "addStream", ctxArg[t], iter[t], 0, "ok")
  /\ pc' = [pc EXCEPT ![t] = "idle"]
  /\ ResetCall(t)
  /\ UNCHANGED <<bindVars, envVars, decodeVars, bindCalls, lockVars, mContext, devContexts,
                 mBuffers, mPendingBuffers, mThread, mQuitThread, mWakeInterval,
                 workVars, bufs, poolVars>>

AddStream(t) == AS_Thread(t) \/ AS_Insert(t)

\* two application threads use the loader of the current context at once
NextStart ==
  \/ \E t \in Threads, c \in LoadCtxs, n \in LifeNames : GBA_Lookup(t, c, n)
  \/ \E t \in Threads : GBA_Start(t) \/ GBA_Thread(t) \/ GBA_Enqueue(t)
  \/ \E t \in Threads : GBA_WakeLock(t) \/ GBA_Notify(t) \/ GBA_Insert(t)
  \/ \E t \in Threads, c \in LoadCtxs, src \in 1..MaxSources : AS_Check(t, c, src)
  \/ \E t \in Threads : AddStream(t)

SpecStart == InitCurrent /\ [][NextStart]_vars

\* one application thread switches contexts, requests buffers and adds
\* streaming sources while the worker of the first context runs
NextStream ==
  \/ \E t \in LoadThreads : MakeCurrent(t)
  \/ \E t \in LoadThreads, c \in LoadCtxs, n \in LifeNames : GBA_Lookup(t, c, n)
  \/ \E t \in LoadThreads : GBA_Start(t) \/ GBA_Thread(t) \/ GBA_Enqueue(t) \/ GBA_WakeLock(t)
  \/ \E t \in LoadThreads : GBA_Notify(t) \/ GBA_Insert(t)
  \/ \E t \in LoadThreads, c \in LoadCtxs, src \in 1..MaxSources : AS_Check(t, c, src)
  \/ \E t \in LoadThreads : AddStream(t)
  \/ \E c \in LoadCtxs : W_Start(c) \/ W_LockCtx(c) \/ W_Loop(c) \/ W_LockStream(c) \/ W_Sweep(c)
  \/ \E c \in LoadCtxs : W_Load(c) \/ W_LockWake(c) \/ W_IdleCheck(c) \/ W_IdleWait(c)
  \/ \E c \in LoadCtxs : W_Spurious(c) \/ W_IdleWake(c) \/ W_Relock(c) \/ W_CtxCheck(c)
  \/ \E c \in LoadCtxs : W_CtxWait(c) \/ W_CtxWake(c)

SpecStream == InitCurrent /\ [][NextStream]_vars

\* one application thread requests buffers of several names and adds
\* streaming sources while the worker of the current context runs
NextSweep ==
  \/ \E t \in LoadThreads, c \in LoadCtxs, n \in Names : GBA_Lookup(t, c, n)
  \/ \E t \in LoadThreads : GBA_Start(t) \/ GBA_Thread(t) \/ GBA_Enqueue(t) \/ GBA_WakeLock(t)
  \/ \E t \in LoadThreads : GBA_Notify(t) \/ GBA_Insert(t)
  \/ \E t \in LoadThreads, c \in LoadCtxs, src \in 1..MaxSources : AS_Check(t, c, src)
  \/ \E t \in LoadThreads : AddStream(t)
  \/ \E c \in LoadCtxs : W_Start(c) \/ W_LockCtx(c) \/ W_Loop(c) \/ W_LockStream(c) \/ W_Sweep(c)
  \/ \E c \in LoadCtxs : W_Load(c) \/ W_LockWake(c) \/ W_IdleCheck(c) \/ W_IdleWait(c)
  \/ \E c \in LoadCtxs : W_Spurious(c) \/ W_IdleWake(c) \/ W_Relock(c) \/ W_CtxCheck(c)

SpecSweep == InitCurrent /\ [][NextSweep]_vars

(***************************************************************************)
(* Decoder factories and GetDecoder (context.cpp:47-113)                   *)
(***************************************************************************)
DecNames == {"x", "y", "z"}
\* sDefaultDecoders, in the order of the array
DefaultDecoders == <<"_alure_int_wave", "_alure_int_vorbis">>
Factories == DecNames \cup {DefaultDecoders[i] : i \in DOMAIN DefaultDecoders}
Positions == {"start", "elsewhere"}

\* operator< of the keys of sDecoders
StringLess(a, b) ==
  \/ a = "x" /\ b \in {"y", "z"}
  \/ a = "y" /\ b = "z"

\* the keys of a set of names from begin() to end() of a std::map
RECURSIVE MapOrder(_)
MapOrder(S) ==
  IF S = {} THEN <<>>
  ELSE LET first == CHOOSE n \in S : \A m \in S \ {n} : StringLess(n, m)
       IN  <<first>> \o MapOrder(S \ {first})

\* file->clear(), file->seekg(0)
RewindSkipped(f) == f
Rewind(f) == [f EXCEPT !.pos = "start"]

RECURSIVE Without(_, _)
Without(seq, n) ==
  IF seq = <<>> THEN <<>>
  ELSE IF Head(seq) = n THEN Without(Tail(seq), n)
  ELSE <<Head(seq)>> \o Without(Tail(seq), n)

RegisterDecoder(t, n) ==
  /\ gd.pc = "idle"
  /\ IF n \in sDecoders
       THEN /\ ret' = Ret(t, "RegisterDecoder", NoCtx, 0, 0, "runtime_error")
            /\ UNCHANGED <<sDecoders, regOrder>>
       ELSE /\ sDecoders' = sDecoders \cup {n}
            /\ regOrder' = Append(regOrder, n)
            /\ ret' = Ret(t, "RegisterDecoder", NoCtx, 0, 1, "ok")
  /\ UNCHANGED <<bindVars, envVars, file, gd, loop_pts, sweep, mMessage, bindCalls, lockVars, ctxVars, workVars,
                 bufs, poolVars, pc, callVars>>

UnregisterDecoder(t, n) ==
  /\ gd.pc = "idle"
  /\ sDecoders' = sDecoders \ {n}
  /\ regOrder' = Without(regOrder, n)
  /\ ret' = Ret(t, "UnregisterDecoder", NoCtx, 0, IF n \in sDecoders THEN 1 ELSE 0, "ok")
  /\ UNCHANGED <<bindVars, envVars, file, gd, loop_pts, sweep, mMessage, bindCalls, lockVars, ctxVars, workVars,
                 bufs, poolVars, pc, callVars>>

\* GetDecoder(name, file) is entered with a freshly opened stream that the
\* factories in acc accept
GD_Begin(acc) ==
  /\ gd.pc = "idle"
  /\ file' = [pos |-> "start", accepted |-> acc]
  /\ gd' = [pc |-> "registered", rest |-> MapOrder(sDecoders), tried |-> <<>>,
            decoder |-> NoName, err |-> "ok"]
  /\ UNCHANGED <<bindVars, envVars, sDecoders, regOrder, loop_pts, sweep, mMessage, bindCalls, lockVars, ctxVars,
                 workVars, bufs, poolVars, pc, callVars, ret>>

\* one pass of the loop of lines 73-83: the factory at 'start' is asked for a
\* decoder; if it has none the stream, which the factory has read from, is
\* rewound, and a rewind that fails ends the resolution
GD_Create ==
  /\ gd.pc \in {"registered", "default"}
  /\ gd.rest # <<>>
  /\ LET f == Head(gd.rest)
         seen == Append(gd.tried, [factory |-> f, pos |-> file.pos])
     IN  IF f \in file.accepted
           THEN /\ gd' = [gd EXCEPT !.pc = "done", !.tried = seen, !.decoder = f]
                /\ \E p \in Positions : file' = [file EXCEPT !.pos = p]
           ELSE \E p \in Positions :
                  \/ /\ file' = Rewind([file EXCEPT !.pos = p])
                     /\ gd' = [gd EXCEPT !.rest = Tail(gd.rest), !.tried = seen]
                  \/ /\ file' = [file EXCEPT !.pos = p]
                     /\ gd' = [gd EXCEPT !.pc = "done", !.tried = seen,
                                         !.err = "runtime_error"]
  /\ UNCHANGED <<bindVars, envVars, sDecoders, regOrder, loop_pts, sweep, mMessage, bindCalls, lockVars, ctxVars,
                 workVars, bufs, poolVars, pc, callVars, ret>>

\* the range is exhausted (line 85): the built-in factories follow the
\* registered ones (line 91), and after them there is no decoder (line 92)
GD_RangeEnd ==
  /\ gd.pc \in {"registered", "default"}
  /\ gd.rest = <<>>
  /\ gd' = IF gd.pc = "registered"
             THEN [gd EXCEPT !.pc = "default", !.rest = DefaultDecoders]
             ELSE [gd EXCEPT !.pc = "done", !.err = "runtime_error"]
  /\ UNCHANGED <<bindVars, envVars, sDecoders, regOrder, file, loop_pts, sweep, mMessage, bindCalls, lockVars,
                 ctxVars, workVars, bufs, poolVars, pc, callVars, ret>>

\* GetDecoder returns or throws
GD_Return(t) ==
  /\ gd.pc = "done"
  /\ gd' = [gd EXCEPT !.pc = "idle"]
  /\ ret' = Ret(t, "GetDecoder", NoCtx, Len(gd.tried), 0, gd.err)
  /\ UNCHANGED <<bindVars, envVars, sDecoders, regOrder, file, loop_pts, sweep, mMessage, bindCalls, lockVars,
                 ctxVars, workVars, bufs, poolVars, pc, callVars>>

NextDecoder ==
  \/ \E t \in LoadThreads, n \in DecNames : RegisterDecoder(t, n)
  \/ \E t \in LoadThreads, n \in DecNames : UnregisterDecoder(t, n)
  \/ \E acc \in SUBSET Factories : GD_Begin(acc)
  \/ GD_Create
  \/ GD_RangeEnd
  \/ \E t \in LoadThreads : GD_Return(t)

SpecDecoder == InitCurrent /\ [][NextDecoder]_vars

(***************************************************************************)
(* Loop points of a decoded buffer (context.cpp:519-533)                   *)
(***************************************************************************)
\* the frame counts a decoder delivers and the loop points it reports
FrameCounts == 0..MaxFrames \cup {100}
LoopPoints == 0..MaxPoint \cup {10, 99, 100, 500}

Min(a, b) == IF a < b THEN a ELSE b

\* lines 526-533, in the order of the statements: the end is clamped to the
\* frame count first, the start then to the clamped end less one
NormalizeEndOnly(frames, first, second) ==
  IF first >= second THEN <<0, frames>>
  ELSE <<first, Min(second, frames)>>
NormalizeLoopPoints(frames, first, second) ==
  IF first >= second THEN <<0, frames>>
  ELSE LET second2 == Min(second, frames)
           first2 == Min(first, second2 - 1)
       IN  <<first2, second2>>

\* lines 519-533 of getBuffer: the decoder's data is read, an empty read
\* is an error, and the decoder's loop points are normalised
GB_LoopPoints(frames, first, second) ==
  /\ loop_pts' =
       IF frames = 0
         THEN [frames |-> frames, first |-> first, second |-> second,
               start |-> 0, end |-> 0, err |-> "runtime_error"]
         ELSE LET pts == NormalizeLoopPoints(frames, first, second) IN
              [frames |-> frames, first |-> first, second |-> second,
               start |-> pts[1], end |-> pts[2], err |-> "ok"]
  /\ UNCHANGED <<bindVars, envVars, sDecoders, regOrder, file, gd, sweep, mMessage, bindCalls,
                 lockVars, ctxVars, workVars, bufs, poolVars, pc, callVars, ret>>

NextLoop ==
  \E frames \in FrameCounts, first \in LoopPoints, second \in LoopPoints :
    GB_LoopPoints(frames, first, second)

SpecLoop == InitCurrent /\ [][NextLoop]_vars

(***************************************************************************)
(* Properties of the source pool                                           *)
(***************************************************************************)
Holders(c) == {s \in Range(mUsedSources[c]) : srcId[c][s] # 0}
CallDone(op) == ret'.seq # ret.seq /\ ret'.op = op

\* C4: each hardware voice id is held by at most one source, and no id on
\* the free-id stack is held by a source
VoiceExclusive ==
  \A c \in Ctxs :
    /\ \A s1, s2 \in 1..MaxSources :
         (s1 # s2 /\ srcId[c][s1] # 0) => srcId[c][s1] # srcId[c][s2]
    /\ \A i \in 1..Len(mSourceIds[c]) :
         \A s \in 1..MaxSources : srcId[c][s] # mSourceIds[c][i]

\* a source has just been given the voice of the source evicted for it
VoiceExclusiveWitness ==
  /\ ret.op = "play" /\ ret.err = "ok" /\ ret.evicted # 0
  /\ srcId["c1"][ret.evicted] = 0
  /\ srcId["c1"][ret.arg] = ret.val

PoolFull(c) ==
  /\ mSourceIds[c] = <<>>
  /\ hwSources[c] = NumVoices
  /\ \A v \in 1..NumVoices : \E s \in Holders(c) : srcId[c][s] = v

\* C5: with every voice held, getSourceId(p) succeeds exactly when some
\* holder has priority strictly below p; it then stops a lowest-priority
\* holder and returns its voice; otherwise it fails and stops nothing
EvictionRule ==
  [][\A c \in Ctxs :
      (CallDone("getSourceId") /\ ret'.ctx = c /\ PoolFull(c)
         /\ CheckContext(ret'.thr, c)) =>
        LET p == ret'.arg
            lower == {s \in Holders(c) : srcPrio[c][s] < p}
        IN IF lower # {}
           THEN /\ ret'.err = "ok"
                /\ \E v \in Holders(c) :
                     /\ \A s \in Holders(c) : srcPrio[c][v] <= srcPrio[c][s]
                     /\ ret'.val = srcId[c][v]
                     /\ ret'.evicted = v
                     /\ srcId'[c] = [srcId[c] EXCEPT ![v] = 0]
           ELSE /\ ret'.err = "ResourceExhausted"
                /\ srcId'[c] = srcId[c]
                /\ mSourceIds'[c] = mSourceIds[c]]_vars

\* an eviction by getSourceId has just happened
EvictionWitness ==
  /\ ret.op = "getSourceId" /\ ret.err = "ok" /\ ret.evicted # 0
  /\ hwSources["c1"] = NumVoices

\* C6: live sources never outnumber allocated ones; createSource allocates
\* only when the free list is empty and otherwise returns the most recently
\* released source
FreeListReuse ==
  /\ [](\A c \in Ctxs : Cardinality(Range(mUsedSources[c])) <= mAllSources[c])
  /\ [][\A c \in Ctxs :
         /\ (CallDone("freeSource") /\ ret'.ctx = c) =>
              mFreeSources'[c][Len(mFreeSources'[c])] = ret'.arg
         /\ (CallDone("createSource") /\ ret'.ctx = c /\ ret'.err = "ok") =>
              IF mFreeSources[c] = <<>>
              THEN /\ mAllSources'[c] = mAllSources[c] + 1
                   /\ ret'.val = mAllSources'[c]
              ELSE /\ mAllSources'[c] = mAllSources[c]
                   /\ ret'.val = mFreeSources[c][Len(mFreeSources[c])]]_vars

\* createSource has just reused a released source while another released
\* source was in the free list
FreeListReuseWitness ==
  /\ ret.op = "createSource" /\ ret.err = "ok"
  /\ mAllSources["c1"] = MaxSources
  /\ mFreeSources["c1"] # <<>>

(***************************************************************************)
(* Properties of the buffer loader                                         *)
(***************************************************************************)
\* C1: every getBuffer call that returns a buffer returns one whose load
\* status is Ready at the moment of the return, whether getBuffer decoded
\* and inserted it itself or found it in the registry, queued by an earlier
\* getBufferAsync, and yielded until the worker had loaded it.
GetBufferReady ==
  [][(CallDone("getBuffer") /\ ret'.err = "ok")
       => /\ ret'.val \in DOMAIN bufs'
          /\ bufs'[ret'.val].name = ret'.name
          /\ bufs'[ret'.val].mLoadStatus = "Ready"]_vars

\* getBuffer has returned the only buffer there is, found in the registry,
\* and the worker is running: that buffer was queued by getBufferAsync
GetBufferReadyWitness ==
  /\ ret.op = "getBuffer" /\ ret.err = "ok" /\ ret.arg = 1
  /\ Len(bufs) = 1 /\ ret.val = 1
  /\ mThread["c1"] = "running"
  /\ bufs[1].mLoadStatus = "Ready"

\* C2: a buffer's load status only moves from Pending to Ready: a buffer
\* that is Ready (by its stored status, or for a poll of it) stays so in
\* every step; a buffer created by the step that completes a getBuffer
\* starts Ready and every other new buffer (getBufferAsync) starts Pending.
StatusMonotonic ==
  [][\A b \in DOMAIN bufs' :
       /\ bufs'[b].mLoadStatus \in {"Pending", "Ready"}
       /\ IF b \in DOMAIN bufs
          THEN /\ bufs[b].mLoadStatus = "Ready" => bufs'[b].mLoadStatus = "Ready"
               /\ bufs[b].mIsLoaded => bufs'[b].mIsLoaded
          ELSE bufs'[b].mLoadStatus =
                 IF CallDone("getBuffer") THEN "Ready" ELSE "Pending"]_vars

\* a poll has just seen a buffer turn Ready, next to a second buffer
StatusMonotonicWitness ==
  /\ ret.op = "getLoadStatus" /\ ret.err = "ok"
  /\ Len(bufs) = 2
  /\ bufs[ret.arg].mLoadStatus = "Ready"
  /\ \E b \in DOMAIN bufs : b # ret.arg /\ bufs[b].mLoadStatus = "Ready"

\* a buffer that getBufferAsync has returned and that a poll would still
\* report as Pending
PendingReturned(b) ==
  /\ b \in DOMAIN bufs
  /\ bufs[b].alive
  /\ \E i \in DOMAIN mBuffers[bufs[b].ctx] : mBuffers[bufs[b].ctx][i] = b
  /\ bufs[b].mLoadStatus = "Pending" /\ ~bufs[b].mIsLoaded

\* the buffer is loaded, or it was removed, or its context is no longer the
\* current one or was destroyed
LoadedOrUnbound(b) ==
  /\ b \in DOMAIN bufs
  /\ \/ bufs[b].mIsLoaded
     \/ ~bufs[b].alive
     \/ alcCurrent # bufs[b].ctx
     \/ sCurrentCtx # bufs[b].ctx
     \/ ~mContext[bufs[b].ctx]
     \/ mQuitThread[bufs[b].ctx]

\* C3: every buffer getBufferAsync returns in Pending state is eventually
\* loaded (a poll then reports Ready), provided it is not removed and its
\* context stays current and is not destroyed: no wake-up is lost between
\* the producer's enqueue-and-notify and the worker's check before it sleeps.
AsyncEventuallyReady ==
  \A b \in 1..MaxBuffers : PendingReturned(b) ~> LoadedOrUnbound(b)

\* an idle worker was woken by getBufferAsync and the application now holds
\* the second buffer, still Pending
AsyncEventuallyReadyWitness ==
  /\ ret.op = "getBufferAsync" /\ ret.err = "ok"
  /\ Len(bufs) = 2 /\ ret.val = 2
  /\ PendingReturned(2)
  /\ bufs[1].mIsLoaded
  /\ wWoken["c1"]

(***************************************************************************)
(* Properties of the binding                                               *)
(***************************************************************************)
\* the slots that name context c as current: the process-wide one and the
\* thread-local overrides
SlotsNaming(c) ==
  (IF sCurrentCtx = c THEN 1 ELSE 0)
    + Cardinality({t \in Threads : sThreadCurrentCtx[t] = c})

\* C7: whenever no MakeCurrent or MakeThreadCurrent call is in progress,
\* each context's reference count equals the number of slots naming it as
\* current (the process-wide slot plus the thread-local overrides).
RefCountMatchesSlots ==
  (\A t \in Threads : pc[t] = "idle")
    => \A c \in Ctxs : mRefs[c] = SlotsNaming(c)

(***************************************************************************)
(* Properties of destroy                                                   *)
(***************************************************************************)
\* C8: destroy() on a context with zero references and an empty registry
\* terminates: once the quit flag is set and the wake condition broadcast
\* (destroy is at its join), the worker is never left asleep, un-notified,
\* on a wait that has no timeout, so it leaves its loop and the join returns.
DestroyJoinReturns ==
  \A t \in Threads :
    pc[t] = "d_join" =>
      ~(wpc[ctxArg[t]] \in {"w_idle_wait", "w_ctx_wait"} /\ ~wWoken[ctxArg[t]])

\* the liveness reading of the same property: a quit request is followed
\* by the destruction of the context
DestroyTerminates ==
  \A c \in LoadCtxs : mQuitThread[c] ~> ~mContext[c]

\* a destroy call by thread t on context c begins in this step
DestroyBegins(t, c) ==
  /\ pc[t] = "idle"
  /\ \/ CallDone("destroy") /\ ret'.thr = t /\ ret'.ctx = c
     \/ pc'[t] \in {"d_setquit", "d_destroy"} /\ ctxArg'[t] = c

\* C9: a destroy() that begins on a context whose reference count is not
\* zero or whose registry is not empty fails with an error within that
\* step and changes nothing: quit flag, worker, hardware context and
\* the device's list of contexts stay as they were.
DestroyRejected ==
  [][\A t \in Threads, c \in Ctxs :
       (DestroyBegins(t, c) /\ (mRefs[c] # 0 \/ mBuffers[c] # <<>>))
         => /\ CallDone("destroy") /\ ret'.err # "ok"
            /\ pc'[t] = "idle"
            /\ UNCHANGED <<mQuitThread, mThread, mContext, devContexts, wpc,
                           wWoken, mRefs, mBuffers, mPendingBuffers, bufs,
                           alcCurrent, sCurrentCtx>>]_vars

\* destroy was refused for the registry alone, the worker being asleep
DestroyRejectedWitness ==
  /\ ret.op = "destroy" /\ ret.err = "runtime_error" /\ ret.ctx = "c1"
  /\ mRefs["c1"] = 0 /\ mBuffers["c1"] # <<>>
  /\ mThread["c1"] = "running" /\ ~mQuitThread["c1"]
  /\ wpc["c1"] \in {"w_idle_wait", "w_ctx_wait"}
  /\ mContext["c1"] /\ "c1" \in devContexts

(***************************************************************************)
(* Properties of the context check                                         *)
(***************************************************************************)
CheckedOps ==
  {"getBuffer", "getBufferAsync", "removeBuffer", "getSourceId", "createSource"}

\* thread t begins one of the checked operations on context c in this step:
\* the call either returns at once or goes on to its next step
CheckedCallBegins(t, c) ==
  /\ pc[t] = "idle"
  /\ \/ /\ ret'.seq # ret.seq
        /\ ret'.op \in CheckedOps /\ ret'.thr = t /\ ret'.ctx = c
     \/ /\ pc'[t] \in {"gb_wait", "gb_insert", "gba_start"}
        /\ ctxArg'[t] = c

\* C10: getBuffer, getBufferAsync, removeBuffer, getSourceId and
\* createSource, begun on a context that is not the calling thread's current
\* one (its thread-local override if set, else the process-wide current),
\* fail with InvalidOperation in that step and leave the buffer registry,
\* the pending-load queue, the source sets and the voice pool unchanged.
WrongContextRejected ==
  [][\A t \in Threads, c \in Ctxs :
       (/\ CheckedCallBegins(t, c)
        /\ c # (IF sThreadCurrentCtx[t] # NoCtx THEN sThreadCurrentCtx[t]
                ELSE sCurrentCtx))
         => /\ ret'.seq # ret.seq /\ ret'.err = "InvalidOperation"
            /\ pc'[t] = "idle"
            /\ UNCHANGED <<mBuffers, mPendingBuffers, bufs, mThread,
                           mAllSources, mFreeSources, mUsedSources,
                           mSourceIds, srcId, hwSources>>]_vars

\* createSource on the process-wide current context was refused because the
\* calling thread has another context as its thread-local override
WrongContextRejectedWitness ==
  /\ ret.op = "createSource" /\ ret.err = "InvalidOperation"
  /\ ret.thr = "t1" /\ ret.ctx = "c1"
  /\ sCurrentCtx = "c1" /\ sThreadCurrentCtx["t1"] = "c2"
  /\ mAllSources["c1"] = 0

(***************************************************************************)
(* Properties of the thread-local binding                                  *)
(***************************************************************************)
\* C11: a successful MakeThreadCurrent(ctx) on thread T changes only T's
\* thread-local override and the reference counts of the old and the new
\* override: the process-wide current context and every other thread's
\* override stay as they were, and afterwards T's effective current context
\* is ctx, whatever the process-wide current context is.
ThreadOverrideFrame ==
  [][\A t \in Threads :
       (CallDone("MakeThreadCurrent") /\ ret'.thr = t /\ ret'.err = "ok")
         => /\ sCurrentCtx' = sCurrentCtx
            /\ alcCurrent' = alcCurrent
            /\ \A u \in Threads \ {t} :
                 /\ sThreadCurrentCtx'[u] = sThreadCurrentCtx[u]
                 /\ alcThread'[u] = alcThread[u]
            /\ sThreadCurrentCtx'[t] = ret'.ctx
            /\ \A c \in Ctxs :
                 mRefs'[c] = mRefs[c]
                               + (IF c = ret'.ctx THEN 1 ELSE 0)
                               - (IF c = sThreadCurrentCtx[t] THEN 1 ELSE 0)
            /\ ret'.ctx # NoCtx =>
                 (IF sThreadCurrentCtx'[t] # NoCtx THEN sThreadCurrentCtx'[t]
                  ELSE sCurrentCtx') = ret'.ctx]_vars

\* t1 has just overridden the process-wide current context c1 with c2 while
\* t2 keeps an override of its own
ThreadOverrideFrameWitness ==
  /\ ret.op = "MakeThreadCurrent" /\ ret.err = "ok"
  /\ ret.thr = "t1" /\ ret.ctx = "c2"
  /\ sCurrentCtx = "c1"
  /\ sThreadCurrentCtx["t1"] = "c2"
  /\ sThreadCurrentCtx["t2"] = "c1"

(***************************************************************************)
(* Properties of the buffer registry                                       *)
(***************************************************************************)
\* the alphabetical order of the names
NameRank(n) == IF n = "a" THEN 1 ELSE IF n = "b" THEN 2 ELSE 3

\* the lookup of getBuffer for the name of the buffer at position i of c's
\* registry ends at that buffer
LookupFinds(c, i) ==
  LET n == bufs[mBuffers[c][i]].name
      k == BufLowerBound(c, n)
  IN BufFound(c, n, k) /\ mBuffers[c][k] = mBuffers[c][i]

\* the registry holds at most one buffer per name
OnePerName(c) ==
  \A i, j \in DOMAIN mBuffers[c] :
    i # j => bufs[mBuffers[c][i]].name # bufs[mBuffers[c][j]].name

\* C12: after any sequence of getBuffer, getBufferAsync and removeBuffer
\* calls the registry is ordered by buffer name and holds at most one
\* buffer per name, and looking up any name that was inserted and not
\* removed finds its buffer.
RegistrySortedByName ==
  \A c \in Ctxs :
    /\ \A i, j \in DOMAIN mBuffers[c] :
         i < j => NameRank(bufs[mBuffers[c][i]].name)
                    < NameRank(bufs[mBuffers[c][j]].name)
    /\ OnePerName(c)
    /\ \A i \in DOMAIN mBuffers[c] : LookupFinds(c, i)

\* the part of C12 that does not depend on which order the keys have
RegistryLookupFinds ==
  \A c \in Ctxs : OnePerName(c) /\ \A i \in DOMAIN mBuffers[c] : LookupFinds(c, i)

\* a getBuffer or getBufferAsync call by the thread whose current context is
\* c completes in this step, for a name that c's registry holds
RequestOfRegistered(c) ==
  /\ CallDone("getBuffer") \/ CallDone("getBufferAsync")
  /\ ret'.ctx = c
  /\ c = (IF sThreadCurrentCtx[ret'.thr] # NoCtx THEN sThreadCurrentCtx[ret'.thr]
          ELSE sCurrentCtx)
  /\ \E i \in DOMAIN mBuffers[c] : bufs[mBuffers[c][i]].name = ret'.name

\* C13, as the code has it: requesting a name that is already in the
\* registry of the current context does not fail; the call returns the
\* registered buffer of that name and leaves the registry unchanged.
ExistingNameReturned ==
  [][\A c \in Ctxs :
       RequestOfRegistered(c)
         => /\ ret'.err = "ok"
            /\ \E i \in DOMAIN mBuffers[c] :
                 mBuffers[c][i] = ret'.val /\ bufs[ret'.val].name = ret'.name
            /\ mBuffers' = mBuffers]_vars

\* getBufferAsync was asked for a registered name while another buffer is
\* registered too, and returned the registered buffer
ExistingNameReturnedWitness ==
  /\ ret.op = "getBufferAsync" /\ ret.err = "ok" /\ ret.arg = 1
  /\ Len(mBuffers["c1"]) = 2
  /\ \E i \in DOMAIN mBuffers["c1"] : mBuffers["c1"][i] = ret.val
  /\ bufs[ret.val].name = ret.name

\* C13: re-inserting a name that is already in the buffer registry fails
\* with InvalidOperation and leaves the registry unchanged.
ReinsertRejected ==
  [][\A c \in Ctxs :
       RequestOfRegistered(c)
         => ret'.err = "InvalidOperation" /\ mBuffers' = mBuffers]_vars

(***************************************************************************)
(* Properties of the decoder resolution                                    *)
(***************************************************************************)
\* the factories a resolution has asked so far
TriedFactories == [i \in DOMAIN gd.tried |-> gd.tried[i].factory]

\* the resolution follows the given order of factories: those asked so far
\* are an initial part of the order, each was handed the stream at its
\* starting position, all but the last asked rejected it, and a decoder
\* that is returned is the one of the first factory in the order that
\* accepts the stream; without an accepting factory there is no decoder
Resolves(order) ==
  /\ Len(gd.tried) <= Len(order)
  /\ TriedFactories = SubSeq(order, 1, Len(gd.tried))
  /\ \A i \in DOMAIN gd.tried : gd.tried[i].pos = "start"
  /\ \A i \in DOMAIN gd.tried : i < Len(gd.tried) => gd.tried[i].factory \notin file.accepted
  /\ gd.decoder # NoName
       => /\ gd.tried # <<>>
          /\ gd.decoder = gd.tried[Len(gd.tried)].factory
          /\ gd.decoder \in file.accepted
  /\ (gd.pc = "done" /\ gd.decoder = NoName) => gd.err # "ok"

\* C14, as the code has it: decoder resolution tries the registered
\* factories in ascending order of the names they were registered under,
\* then the built-in factories in their fixed order, and returns the decoder
\* of the first factory that accepts the stream; after every rejection the
\* stream is rewound to its start before the next factory is tried (a
\* rewind that fails ends the resolution with an error).
ResolutionInNameOrder ==
  gd.pc # "idle" => Resolves(MapOrder(sDecoders) \o DefaultDecoders)

\* three factories were registered, not in the order of their names; only
\* the last in name order accepts the stream, and its decoder is returned
\* after two rewinds
ResolutionInNameOrderWitness ==
  /\ regOrder = <<"z", "x", "y">>
  /\ file.accepted = {"z"}
  /\ gd.pc = "done" /\ gd.decoder = "z"
  /\ Len(gd.tried) = 3
  /\ gd.tried[3].pos = "start"

\* C14: decoder resolution tries the registered factories in the order in
\* which they were registered, then the built-in factories in their fixed
\* order, and returns the decoder of the first factory that accepts the
\* stream, the stream being rewound after every rejection.
ResolutionInRegistrationOrder ==
  gd.pc # "idle" => Resolves(regOrder \o DefaultDecoders)

(***************************************************************************)
(* Properties of the extension setup                                       *)
(***************************************************************************)
\* C15: however successful MakeCurrent and MakeThreadCurrent calls that name
\* a context interleave, setupExts has run for that context exactly once
\* when such a call has returned, and it never runs a second time.
SetupExtsOnce ==
  /\ \A c \in Ctxs : mSetExts[c] <= 1
  /\ (ret.op \in {"MakeCurrent", "MakeThreadCurrent"} /\ ret.err = "ok" /\ ret.ctx # NoCtx)
       => mSetExts[ret.ctx] = 1

\* both kinds of call have named c1 and succeeded: c1 is the process-wide
\* binding and the override of the thread whose MakeThreadCurrent returned last
SetupExtsOnceWitness ==
  /\ ret.op = "MakeThreadCurrent" /\ ret.err = "ok" /\ ret.ctx = "c1"
  /\ sCurrentCtx = "c1"
  /\ \E t \in Threads : sThreadCurrentCtx[t] = "c1" /\ bindCalls[t] = 1
  /\ \A t \in Threads : bindCalls[t] >= 1
  /\ mSetExts["c1"] = 1

(***************************************************************************)
(* Properties of the worker start                                          *)
(***************************************************************************)
\* C16: at most one background worker thread is ever started for a context;
\* no later or concurrent getBufferAsync or addStream call, including one
\* racing with the first from another thread, starts a second one.
OneWorkerPerContext ==
  \A c \in Ctxs : mThread[c] # "started_twice"

(***************************************************************************)
(* Properties of the pending-load records                                  *)
(***************************************************************************)
\* the number of records in c's queue that were made for buffer b
QueuedFor(c, b) ==
  Cardinality({i \in DOMAIN mPendingBuffers[c] : mPendingBuffers[c][i].mBuffer = b})

\* C17: every PendingBuffer record placed in the queue is finalized exactly
\* once: it sits in the queue once until the worker executes its load once
\* and destroys it, or until the context destructor destroys it without
\* executing the load; no record is executed or destroyed a second time or
\* after it has left the queue, the queue never holds more records than the
\* ring has slots (so none is overwritten), and a destroyed context leaves
\* no record behind.
RecordsFinalizedOnce ==
  \A c \in Ctxs :
    /\ Len(mPendingBuffers[c]) <= RingSize
    /\ \A b \in DOMAIN bufs :
         bufs[b].ctx = c =>
           /\ bufs[b].record # "broken"
           /\ QueuedFor(c, b) = (IF bufs[b].record = "queued" THEN 1 ELSE 0)
           /\ bufs[b].record = "loaded" => bufs[b].mIsLoaded
           /\ bufs[b].record = "dropped" => ~bufs[b].mIsLoaded
           /\ ~mContext[c] => bufs[b].record # "queued"

\* the context has been destroyed after the worker executed one record and
\* quit with another still in the queue, which the destructor destroyed
RecordsFinalizedOnceWitness ==
  /\ ~mContext["c1"]
  /\ \E b1, b2 \in DOMAIN bufs :
       /\ bufs[b1].record = "loaded"
       /\ bufs[b2].record = "dropped"

\* the ring is full and the producer is held back at line 611
RingFull ==
  /\ Len(mPendingBuffers["c1"]) = RingSize
  /\ pc["t1"] = "gba_enqueue"

(***************************************************************************)
(* Properties of the loop points                                           *)
(***************************************************************************)
\* C18: for a decoded buffer of F > 0 frames and decoder loop points (s, e):
\* if s >= e the loop points become (0, F), otherwise
\* (min(s, min(e, F) - 1), min(e, F)); the result always satisfies
\* 0 <= start < end <= F; (5, 3) on 100 frames gives (0, 100) and (10, 500)
\* on 100 frames gives (10, 100).
LoopPointsNormalized ==
  loop_pts.err = "ok" =>
    LET F == loop_pts.frames
        s == loop_pts.first
        e == loop_pts.second
    IN  /\ F > 0
        /\ s >= e => loop_pts.start = 0 /\ loop_pts.end = F
        /\ s < e => /\ loop_pts.end = (IF e < F THEN e ELSE F)
                    /\ loop_pts.start = (IF s < loop_pts.end - 1 THEN s
                                         ELSE loop_pts.end - 1)
        /\ 0 <= loop_pts.start /\ loop_pts.start < loop_pts.end /\ loop_pts.end <= F
        /\ (F = 100 /\ s = 5 /\ e = 3) => loop_pts.start = 0 /\ loop_pts.end = 100
        /\ (F = 100 /\ s = 10 /\ e = 500) => loop_pts.start = 10 /\ loop_pts.end = 100

\* a start beyond the clamped end was pulled back below it: (5, 500) on 3
\* frames became (2, 3)
LoopPointsNormalizedWitness ==
  /\ loop_pts.err = "ok"
  /\ loop_pts.frames = 3 /\ loop_pts.first = 5 /\ loop_pts.second = 500
  /\ loop_pts.start = 2 /\ loop_pts.end = 3

(***************************************************************************)
(* Properties of the wake-up at a context switch                           *)
(***************************************************************************)
WaitingOnWake(c) == wpc[c] \in {"w_idle_wait", "w_idle_wait_timed", "w_ctx_wait"}

\* a MakeCurrent call returns successfully in this step, having replaced
\* the process-wide binding old by new
SwitchDone(old, new) ==
  /\ CallDone("MakeCurrent")
  /\ ret'.err = "ok"
  /\ ret'.ctx = new
  /\ oldCtx[ret'.thr] = old

\* C19, as the code has it: when a successful MakeCurrent, not overlapped by
\* another MakeCurrent, makes current a context B that was not current
\* before, the threads blocked on B's wake condition are woken by a
\* broadcast so that they recheck whether B is current; no broadcast is
\* made on the context switched away from, and none when switching to none.
SwitchWakesNewContext ==
  [][\A old, new \in CtxOrNone :
       SwitchDone(old, new)
         => /\ (new # NoCtx /\ new # old /\ WaitingOnWake(new)) => wWoken'[new]
            /\ \A c \in Ctxs : (c # new \/ new = old) => wWoken'[c] = wWoken[c]]_vars

\* c1 was made current again while its worker was blocked waiting for it to
\* become current, and the worker has been woken
SwitchWakesNewContextWitness ==
  /\ ret.op = "MakeCurrent" /\ ret.err = "ok" /\ ret.ctx = "c1"
  /\ sCurrentCtx = "c1"
  /\ wpc["c1"] = "w_ctx_wait"
  /\ wWoken["c1"]

\* C19: when a successful MakeCurrent switches the process-wide binding
\* away from a context A (to another context or to none), the threads
\* blocked on A's wake condition are woken by a broadcast.
SwitchWakesOldContext ==
  [][\A old, new \in CtxOrNone :
       (SwitchDone(old, new) /\ old # NoCtx /\ old # new /\ WaitingOnWake(old))
         => wWoken'[old]]_vars

(***************************************************************************)
(* Properties of the locking in MakeCurrent                                *)
(***************************************************************************)
\* the context whose mutex thread t is about to lock (lines 246, 248)
LockWanted(t) ==
  IF pc[t] = "mc_lock1" THEN lock1[t]
  ELSE IF pc[t] = "mc_lock2" THEN lock2[t]
  ELSE NoCtx

\* t is blocked on a context mutex that u holds
WaitsFor(t, u) ==
  LockWanted(t) # NoCtx /\ mContextMutex[LockWanted(t)] = u

\* C20: concurrent MakeCurrent calls never deadlock: no caller waits for a
\* context lock that can never be released, neither one it holds itself
\* nor one held by a caller that in turn waits for a lock of the first.
MakeCurrentNeverDeadlocks ==
  \A t, u \in Threads : ~(WaitsFor(t, u) /\ WaitsFor(u, t))

(***************************************************************************)
(* Properties of the source free list                                      *)
(***************************************************************************)
\* C21: after any sequence of createSource and freeSource calls in which
\* each source is released at most once per acquisition, no source is at
\* the same time live (in the used-source set) and in the free list, and
\* createSource never returns a source that is still live.
NoSourceLiveAndFree ==
  \A c \in Ctxs : Range(mUsedSources[c]) \cap Range(mFreeSources[c]) = {}

(***************************************************************************)
(* Properties of the locks of a context                                    *)
(***************************************************************************)
\* the locks of context c that thread x holds
HeldLocks(x, c) ==
  {l \in {"context", "stream", "wake"} :
     \/ l = "context" /\ mContextMutex[c] = x
     \/ l = "wake" /\ mWakeMutex[c] = x
     \/ l = "stream" /\ x = W(c) /\ wpc[c] = "w_sweeping"
     \/ l = "stream" /\ x \in Threads /\ ctxArg[x] = c
                     /\ pc[x] \in {"as_thread", "as_insert"}}

Inserting(c) ==
  {t \in Threads : /\ ctxArg[t] = c
                   /\ pc[t] \in {"gba_start", "gba_thread", "gba_enqueue", "gba_wakelock",
                                  "gba_notify", "gba_insert"}}

\* C23: no two threads are inside an insertion into the buffer registry of
\* one context at once, and no name is inserted twice by concurrent fetches
RegistryMutationsExclusive ==
  \A c \in Ctxs :
    /\ Cardinality(Inserting(c)) <= 1
    /\ \A i, j \in DOMAIN mBuffers[c] :
         i # j => bufs[mBuffers[c][i]].name # bufs[mBuffers[c][j]].name
(***************************************************************************)
(* Properties of removeBuffer and the pending loads                        *)
(***************************************************************************)
\* C24: a buffer whose load record is still in the queue of its context has
\* not been removed by removeBuffer, so the worker never loads a removed
\* buffer
QueuedBufferNotRemoved ==
  \A c \in Ctxs : \A i \in DOMAIN mPendingBuffers[c] :
    bufs[mPendingBuffers[c][i].mBuffer].alive
(***************************************************************************)
(* Properties of the worker's loop iteration                               *)
(***************************************************************************)
\* the worker of c finishes its sweep in this step
SweepStep(c) == wpc[c] = "w_sweeping" /\ wpc'[c] = "w_load"

\* the worker of c executes a pending buffer load in this step
LoadStep(c) ==
  /\ wpc[c] = "w_load"
  /\ Len(mPendingBuffers[c]) > 0
  /\ mPendingBuffers'[c] = Tail(mPendingBuffers[c])

\* C25: a sweep updates every source of the streaming set once and removes
\* exactly those whose update reports completion; a buffer load is executed
\* only when no source has stayed in the set since the previous load without
\* an update, and it is followed by the next sweep, not by another load
SweepBeforeEveryLoad ==
  [][\A c \in Ctxs :
       /\ SweepStep(c) =>
            /\ sweep'[c].upd = mStreamingSources[c]
            /\ mStreamingSources'[c] = mStreamingSources[c] \ sweep'[c].done
       /\ LoadStep(c) =>
            /\ sweep[c].stale \cap mStreamingSources[c] = {}
            /\ wpc'[c] = "w_loop"]_vars

\* a second load is about to run with another one still queued behind it,
\* after a sweep that updated two sources and removed one of them
SweepBeforeEveryLoadWitness ==
  \E c \in Ctxs :
    /\ wpc[c] = "w_load"
    /\ Len(mPendingBuffers[c]) > 0
    /\ \E b \in DOMAIN bufs : bufs[b].ctx = c /\ bufs[b].record = "loaded"
    /\ Cardinality(sweep[c].upd) = 2
    /\ Cardinality(sweep[c].done) = 1
\* C26: the worker executes a buffer load, or updates a streaming source,
\* only while its own context is the binding alcGetCurrentContext reports on
\* the worker thread
WorkerActsOnlyWhenCurrent ==
  [][\A c \in Ctxs :
       (LoadStep(c) \/ (SweepStep(c) /\ mStreamingSources[c] # {}))
         => alcGetCurrentContext(W(c)) = c]_vars
(***************************************************************************)
(* Properties of the eviction in getSourceId                               *)
(***************************************************************************)
\* C27: the source evicted by getSourceId is the first one, in the order of
\* the used-source set, among the voice holders of minimum priority; it is
\* the only source stopped, and the message handler, if one is set,
\* receives sourceStopped(victim, true) once; without an eviction nothing is
\* stopped and no message is sent
EvictsFirstLowest ==
  [][\A c \in Ctxs :
       ((CallDone("getSourceId") \/ CallDone("play")) /\ ret'.ctx = c
          /\ CheckContext(ret'.thr, c)) =>
         LET used == mUsedSources[c]
             v == ret'.evicted
             held == {i \in DOMAIN used : srcId[c][used[i]] # 0}
             stopped == {s \in 1..MaxSources : srcId[c][s] # 0 /\ srcId'[c][s] = 0}
         IN IF v # 0
            THEN /\ \E k \in held :
                      /\ used[k] = v
                      /\ \A i \in held :
                           \/ srcPrio[c][used[i]] > srcPrio[c][v]
                           \/ srcPrio[c][used[i]] = srcPrio[c][v] /\ k <= i
                 /\ stopped = {v}
                 /\ ret'.stopped = IF mMessage[c] THEN <<[src |-> v, forced |-> TRUE]>>
                                   ELSE <<>>
            ELSE /\ stopped = {}
                 /\ ret'.stopped = <<>>]_vars

\* two sources of equal priority held the voices, the first of them has
\* been evicted and the handler has been told
EvictsFirstLowestWitness ==
  /\ Len(mUsedSources["c1"]) = 2
  /\ ret.op = "getSourceId" /\ ret.err = "ok" /\ ret.evicted = mUsedSources["c1"][1]
  /\ srcPrio["c1"][mUsedSources["c1"][1]] = srcPrio["c1"][mUsedSources["c1"][2]]
  /\ srcId["c1"][mUsedSources["c1"][2]] # 0
  /\ ret.stopped = <<[src |-> ret.evicted, forced |-> TRUE]>>
====
